---- MODULE Spec2Model ----
(***************************************************************************)
(* A model of the chainai command layer: the swap orchestration            *)
(* (getSwapQuote, submitSwapOrder and the OneInchFusion methods they       *)
(* call), the order-status and transaction-status queries, and the         *)
(* send / broadcast path.                                                  *)
(*                                                                         *)
(* One behaviour is one invocation.  Init draws the invocation's inputs;   *)
(* every `await` of the code is a step boundary: the action that issues a  *)
(* request appends "call:<request>" to log, and the continuation that      *)
(* runs when the request settles appends "ret:<request>" and draws the     *)
(* node's or the order service's answer (a value or a rejection).          *)
(***************************************************************************)
EXTENDS Integers, Sequences, FiniteSets, TLC

VARIABLES
  cmd,       \* the entry point of this invocation
  input,     \* its arguments
  pc,        \* the position of the (single) async flow
  local,     \* the local variables of the running functions
  pending,   \* the decimals lookups of Promise.all still in flight
  log,       \* the requests issued and settled so far, in order
  result,    \* what the invoked function returned or threw
  out,       \* the CHAINAI_OK / CHAINAI_ERR lines the CLI has written
  exitCode   \* -1 while running or when the process ends normally unset, 0/1

vars == <<cmd, input, pc, local, pending, log, result, out, exitCode>>

-----------------------------------------------------------------------------
(* Bounds of the model *)

\* the longest list of fill records the order service returns
MaxFills == 2

-----------------------------------------------------------------------------
(* Strings: addresses, keys and network names are atoms; toLowerCase,      *)
(* startsWith and isAddress are tables over the atoms the model draws.     *)

NATIVE_TOKEN_ADDRESS == "0xeeeeeeeeeeeeeeeeeeeeeeeeeeeeeeeeeeeeeeee"

\* the same twenty bytes in EIP-55 checksum casing
NATIVE_CHECKSUMMED == "0xEeeeeEeeeEeEeeEeEeEeeEEEeeeeEeeeeeeeEEeE"

USDT_CONTRACT == "0xdac17f958d2ee523a2206206994597c13d831ec7"

NOT_AN_ADDRESS == "not-an-address"

TEST_PRIVATE_KEY == "0xac0974bec39a17e36ba4a6b4d238ff944bacb478cbed5efcae784d7bf4f2ff80"

FAKE_TX_HASH == "0xabcdef1234567890abcdef1234567890abcdef1234567890abcdef1234567890"

ToLowerCase(s) ==
  CASE s = NATIVE_CHECKSUMMED -> NATIVE_TOKEN_ADDRESS
    [] s \in {"MAINNET", "MainNet"} -> "mainnet"
    [] s \in {"ETH", "Eth"} -> "eth"
    [] s \in {"ETHEREUM", "Ethereum"} -> "ethereum"
    [] s \in {"BSC", "Bsc"} -> "bsc"
    [] s \in {"BINANCE", "Binance"} -> "binance"
    [] s \in {"BNB", "Bnb"} -> "bnb"
    [] s \in {"BNB Smart Chain", "BNB SMART CHAIN"} -> "bnb smart chain"
    [] s = "POLYGON" -> "polygon"
    [] s = "YES" -> "yes"
    [] s = "0x70997970C51812dc3A010C7d01b50e0d17dc79C8"
         -> "0x70997970c51812dc3a010c7d01b50e0d17dc79c8"
    [] OTHER -> s

StartsWith0x(s) ==
  s \in {NATIVE_TOKEN_ADDRESS, NATIVE_CHECKSUMMED, USDT_CONTRACT,
         TEST_PRIVATE_KEY, FAKE_TX_HASH, "0xabcdef", "0xorderhash123",
         "0xf39Fd6e51aad88F6F4ce6aB8827279cffFb92266",
         "0x02f86c0105843b9aca00851bf08eb000825208",
         "0x02f8b00105843b9aca00851bf08eb00082fde8"}

\* viem isAddress: 0x + 40 hex digits, all lower case or a valid checksum
isAddress(a) ==
  a \in {NATIVE_TOKEN_ADDRESS, NATIVE_CHECKSUMMED, USDT_CONTRACT,
         "0x70997970C51812dc3A010C7d01b50e0d17dc79C8"}

\* viem isHex: 0x followed by hex digits only
isHex(s) ==
  s \in {NATIVE_TOKEN_ADDRESS, NATIVE_CHECKSUMMED, USDT_CONTRACT,
         TEST_PRIVATE_KEY, FAKE_TX_HASH, "0xabcdef",
         "0x02f86c0105843b9aca00851bf08eb000825208",
         "0x02f8b00105843b9aca00851bf08eb00082fde8",
         "0x70997970C51812dc3A010C7d01b50e0d17dc79C8",
         "0x70997970c51812dc3a010c7d01b50e0d17dc79c8"}

\* String.prototype.length of the hashes the model draws
StrLen(s) ==
  CASE s = FAKE_TX_HASH -> 66
    [] s = TEST_PRIVATE_KEY -> 66
    [] s = "0xabcdef" -> 8
    [] s = "not-a-hash" -> 10
    [] s = "" -> 0
    [] OTHER -> 42

-----------------------------------------------------------------------------
(* Arbitrary-precision integers (bigint) as sign and decimal digits, most  *)
(* significant first, no leading zero; zero is <<0>>.                      *)

Digit == 0 .. 9

DigitChars == {"0", "1", "2", "3", "4", "5", "6", "7", "8", "9"}

DigitVal(c) ==
  CASE c = "0" -> 0 [] c = "1" -> 1 [] c = "2" -> 2 [] c = "3" -> 3
    [] c = "4" -> 4 [] c = "5" -> 5 [] c = "6" -> 6 [] c = "7" -> 7
    [] c = "8" -> 8 [] c = "9" -> 9

RECURSIVE StripZeros(_)
StripZeros(d) ==
  IF Len(d) > 1 /\ d[1] = 0 THEN StripZeros(Tail(d)) ELSE d

\* BigInt(string of digits), the sign given apart
BigInt(neg, digits) ==
  LET mag == StripZeros(IF digits = <<>> THEN <<0>> ELSE digits)
  IN [neg |-> neg /\ mag # <<0>>, mag |-> mag]

RECURSIVE LexLess(_, _)
LexLess(a, b) ==
  IF a = <<>> THEN FALSE
  ELSE IF a[1] # b[1] THEN a[1] < b[1]
  ELSE LexLess(Tail(a), Tail(b))

MagLess(a, b) ==
  IF Len(a) # Len(b) THEN Len(a) < Len(b) ELSE LexLess(a, b)

\* a < b on bigints
BigLess(a, b) ==
  CASE a.neg /\ ~b.neg -> TRUE
    [] ~a.neg /\ b.neg -> FALSE
    [] ~a.neg /\ ~b.neg -> MagLess(a.mag, b.mag)
    [] OTHER -> MagLess(b.mag, a.mag)

Zeros(n) == [i \in 1 .. n |-> 0]

NoBig == [neg |-> FALSE, mag |-> <<>>]

-----------------------------------------------------------------------------
(* Amount strings are sequences of one-character strings.                  *)

IndexOfDot(v) ==
  IF \E i \in 1 .. Len(v) : v[i] = "."
  THEN CHOOSE i \in 1 .. Len(v) : v[i] = "." /\ \A j \in 1 .. i - 1 : v[j] # "."
  ELSE 0

ToDigits(cs) == [i \in 1 .. Len(cs) |-> DigitVal(cs[i])]

RECURSIVE TrimTrailingZeros(_)
TrimTrailingZeros(d) ==
  IF d # <<>> /\ d[Len(d)] = 0
  THEN TrimTrailingZeros(SubSeq(d, 1, Len(d) - 1))
  ELSE d

RECURSIVE IncMag(_)
IncMag(d) ==
  IF d = <<>> THEN <<1>>
  ELSE IF d[Len(d)] < 9 THEN [d EXCEPT ![Len(d)] = @ + 1]
  ELSE IncMag(SubSeq(d, 1, Len(d) - 1)) \o <<0>>

PadStart(d, n) == IF Len(d) < n THEN Zeros(n - Len(d)) \o d ELSE d

\* the regular expression /^(-?)([0-9]*)\.?([0-9]*)$/ of viem's parseUnits
IsDecimalNumber(v) ==
  LET body == IF v # <<>> /\ v[1] = "-" THEN Tail(v) ELSE v
  IN /\ \A i \in 1 .. Len(body) : body[i] \in DigitChars \cup {"."}
     /\ Cardinality({i \in 1 .. Len(body) : body[i] = "."}) <= 1

\* the number of 9s after a leading 4 from which Number(`${unit}.4999...`)
\* is the double unit + 0.5: half the spacing of the doubles below 0.5 is
\* 2^-55 (about 2.8e-17), and below 1.5 and more it is 2^-53 or more
DriftNines(unit) == IF unit = 0 THEN 16 ELSE 15

\* Math.round(Number(`${unit}.${right}`)) for one digit and a digit string.
\* Number gives the nearest double and Math.round rounds halves up.  The
\* rule is exact for a right part of at most 14 digits and for a 4 followed
\* by 9s only, which is what the amounts drawn have.
RoundUnit(unit, right) ==
  IF right = <<>> THEN unit
  ELSE IF right[1] >= 5 THEN unit + 1
  ELSE IF /\ right[1] = 4
          /\ Len(right) - 1 >= DriftNines(unit)
          /\ \A i \in 2 .. Len(right) : right[i] = 9
       THEN unit + 1
       ELSE unit

\* viem parseUnits(value, decimals): [ok |-> FALSE] when it throws
parseUnits(value, decimals) ==
  IF ~IsDecimalNumber(value) THEN [ok |-> FALSE, val |-> NoBig]
  ELSE
    LET dot == IndexOfDot(value)
        intStr == IF dot = 0 THEN value ELSE SubSeq(value, 1, dot - 1)
        fracStr == IF dot = 0 THEN <<"0">> ELSE SubSeq(value, dot + 1, Len(value))
        negative == intStr # <<>> /\ intStr[1] = "-"
        integer == ToDigits(IF negative THEN Tail(intStr) ELSE intStr)
        fraction == TrimTrailingZeros(ToDigits(fracStr))
        intMag == StripZeros(IF integer = <<>> THEN <<0>> ELSE integer)
    IN IF decimals = 0
       THEN IF RoundUnit(0, fraction) = 1
            THEN [ok |-> TRUE, val |-> BigInt(negative, IncMag(intMag))]
            ELSE IF negative /\ integer = <<>>
                 THEN [ok |-> FALSE, val |-> NoBig]
                 ELSE [ok |-> TRUE, val |-> BigInt(negative, integer)]
       ELSE IF Len(fraction) > decimals
       THEN LET left == SubSeq(fraction, 1, decimals - 1)
                unit == fraction[decimals]
                right == SubSeq(fraction, decimals + 1, Len(fraction))
                rounded == RoundUnit(unit, right)
                f1 == IF rounded > 9
                      THEN PadStart(
                             StripZeros(IncMag(IF left = <<>> THEN <<0>> ELSE left))
                               \o <<0>>,
                             Len(left) + 1)
                      ELSE left \o <<rounded>>
                carry == Len(f1) > decimals
                f2 == IF carry THEN Tail(f1) ELSE f1
                i2 == IF carry THEN IncMag(intMag) ELSE integer
            IN [ok |-> TRUE, val |-> BigInt(negative, i2 \o SubSeq(f2, 1, decimals))]
       ELSE [ok |-> TRUE,
             val |-> BigInt(negative,
                            integer \o fraction \o Zeros(decimals - Len(fraction)))]

HexDigitChars ==
  DigitChars \cup {"a", "b", "c", "d", "e", "f", "A", "B", "C", "D", "E", "F"}

\* String.prototype.trim, for blanks
RECURSIVE TrimBlanks(_)
TrimBlanks(v) ==
  IF v # <<>> /\ v[1] = " " THEN TrimBlanks(Tail(v))
  ELSE IF v # <<>> /\ v[Len(v)] = " " THEN TrimBlanks(SubSeq(v, 1, Len(v) - 1))
  ELSE v

\* digits with at most one dot and at least one digit: a StrDecimalLiteral
\* without sign and exponent
IsUnsignedDecimal(body) ==
  /\ \A i \in 1 .. Len(body) : body[i] \in DigitChars \cup {"."}
  /\ Cardinality({i \in 1 .. Len(body) : body[i] = "."}) <= 1
  /\ \E i \in 1 .. Len(body) : body[i] \in DigitChars

\* the position of the exponent mark, or 0
IndexOfExponent(body) ==
  IF \E i \in 1 .. Len(body) : body[i] \in {"e", "E"}
  THEN CHOOSE i \in 1 .. Len(body) :
         body[i] \in {"e", "E"} /\ \A j \in 1 .. i - 1 : body[j] \notin {"e", "E"}
  ELSE 0

\* Number(amount) of the check `!amount || isNaN(Number(amount)) ||
\* Number(amount) <= 0`: its sign, "zero" or "NaN".  Number reads a trimmed
\* string as a signed decimal literal with an optional exponent, as
\* Infinity, or as an unsigned 0x literal; the empty string is 0.  (An
\* exponent is taken not to underflow the mantissa to 0.)
JsNumberSign(v) ==
  LET t == TrimBlanks(v)
      signed == t # <<>> /\ t[1] \in {"-", "+"}
      body == IF signed THEN Tail(t) ELSE t
      e == IndexOfExponent(body)
      mantissa == IF e = 0 THEN body ELSE SubSeq(body, 1, e - 1)
      expo == IF e = 0 THEN <<>> ELSE SubSeq(body, e + 1, Len(body))
      expoDigits == IF expo # <<>> /\ expo[1] \in {"-", "+"} THEN Tail(expo) ELSE expo
      hexLiteral == /\ Len(t) > 2
                    /\ t[1] = "0"
                    /\ t[2] \in {"x", "X"}
                    /\ \A i \in 3 .. Len(t) : t[i] \in HexDigitChars
      wellFormed ==
        /\ IsUnsignedDecimal(mantissa)
        /\ e # 0 => (expoDigits # <<>>
                     /\ \A i \in 1 .. Len(expoDigits) : expoDigits[i] \in DigitChars)
      nonZero == \E i \in 1 .. Len(mantissa) : mantissa[i] \in DigitChars \ {"0"}
      sign == IF signed /\ t[1] = "-" THEN "neg" ELSE "pos"
  IN CASE t = <<>> -> "zero"
       [] body = <<"I", "n", "f", "i", "n", "i", "t", "y">> -> sign
       [] hexLiteral -> IF \E i \in 3 .. Len(t) : t[i] # "0" THEN "pos" ELSE "zero"
       [] ~wellFormed -> "NaN"
       [] ~nonZero -> "zero"
       [] OTHER -> sign

\* a variant of the guard below without `Number(amount) <= 0`
AmountRejected_NaNOnly(amount) ==
  amount = <<>> \/ JsNumberSign(amount) = "NaN"

\* the guard of `throw new Error('Amount must be a positive number')`
AmountRejected(amount) ==
  amount = <<>> \/ JsNumberSign(amount) \in {"NaN", "neg", "zero"}

-----------------------------------------------------------------------------
(* Network registry and account validation (utils.ts, configs.ts)          *)

mainnet == [id |-> 1, name |-> "Ethereum"]

bsc == [id |-> 56, name |-> "BNB Smart Chain"]

NoChain == [id |-> 0, name |-> ""]

SUPPORTED_NETWORKS == <<mainnet, bsc>>

SUPPORTED_NETWORKS_NAME_MAP(chainId) ==
  CASE chainId = mainnet.id ->
         [balances |-> "eth", nodeUrl |-> "https://nodes.mewapi.io/rpc/eth"]
    [] chainId = bsc.id ->
         [balances |-> "bsc", nodeUrl |-> "https://nodes.mewapi.io/rpc/eth"]
    [] OTHER -> [balances |-> "", nodeUrl |-> ""]

NaN == -1

\* Number(network) for the network strings the model draws
NumberOfNetwork(s) ==
  CASE s = "1" -> 1
    [] s = "56" -> 56
    [] s = "0x1" -> 1
    [] s = "1.0" -> 1
    [] s = "1e0" -> 1
    [] s = " 56 " -> 56
    [] s = "" -> 0
    [] OTHER -> NaN

\* Array.prototype.find: the first element of seq among those the callback
\* accepts (the set hits), or NoChain
Find(seq, hits) ==
  IF \E i \in 1 .. Len(seq) : seq[i] \in hits
  THEN seq[CHOOSE i \in 1 .. Len(seq) :
             seq[i] \in hits /\ \A j \in 1 .. i - 1 : seq[j] \notin hits]
  ELSE NoChain

\* the message of the error resolveNetwork throws, without the quoted input:
\* SUPPORTED_NETWORKS.map((c) => `${c.name} (${c.id})`).join(', ')
UnsupportedNetworkMessage ==
  "Unsupported network. Supported networks: "
    \o SUPPORTED_NETWORKS[1].name \o " (" \o ToString(SUPPORTED_NETWORKS[1].id)
    \o "), "
    \o SUPPORTED_NETWORKS[2].name \o " (" \o ToString(SUPPORTED_NETWORKS[2].id)
    \o ")"

\* a variant of the lookup below that compares names and aliases without
\* lower-casing the input
resolveNetwork_CaseSensitive(network) ==
  LET asNumber == NumberOfNetwork(network)
      chains == {SUPPORTED_NETWORKS[i] : i \in 1 .. Len(SUPPORTED_NETWORKS)}
      byId == IF asNumber # NaN
              THEN Find(SUPPORTED_NETWORKS, {c \in chains : c.id = asNumber})
              ELSE NoChain
      NameIs(c) ==
        \/ ToLowerCase(c.name) = network
        \/ (c.id = 1 /\ network \in {"mainnet", "ethereum", "eth"})
        \/ (c.id = 56 /\ network \in {"bsc", "binance", "bnb"})
  IN IF byId # NoChain
     THEN byId
     ELSE Find(SUPPORTED_NETWORKS, {c \in chains : NameIs(c)})

\* resolveNetwork(network): the chain, or NoChain when it throws
resolveNetwork(network) ==
  LET asNumber == NumberOfNetwork(network)
      chains == {SUPPORTED_NETWORKS[i] : i \in 1 .. Len(SUPPORTED_NETWORKS)}
      byId == IF asNumber # NaN
              THEN Find(SUPPORTED_NETWORKS, {c \in chains : c.id = asNumber})
              ELSE NoChain
      lower == ToLowerCase(network)
      NameIs(c) ==
        \/ ToLowerCase(c.name) = lower
        \/ (c.id = 1 /\ lower \in {"mainnet", "ethereum", "eth"})
        \/ (c.id = 56 /\ lower \in {"bsc", "binance", "bnb"})
  IN IF byId # NoChain
     THEN byId
     ELSE Find(SUPPORTED_NETWORKS, {c \in chains : NameIs(c)})

\* validateAndCreateAccount(privateKey): "" when it returns the account,
\* else the message of the error thrown (by the check, or by
\* privateKeyToAccount for a key that is not 32 bytes of hex)
validateAndCreateAccount(privateKey) ==
  IF privateKey = "" \/ ~StartsWith0x(privateKey)
  THEN "Private key must be a hex string starting with 0x"
  ELSE IF privateKey # TEST_PRIVATE_KEY
  THEN "invalid private key"
  ELSE ""

-----------------------------------------------------------------------------
(* The invocation's state                                                  *)

Locals0 ==
  [ chainId |-> 0,
    fromTokenDecimals |-> -1,
    toTokenDecimals |-> -1,
    rawAmount |-> NoBig,
    allowance |-> NoBig,
    needsApproval |-> FALSE,
    approvalTxHash |-> "null",
    approvalReceipt |-> "none",
    shownQuote |-> "none",
    quote |-> "none",
    serviceOrderHash |-> "null",
    lockReceipt |-> "none",
    confirmed |-> FALSE,
    response |-> [status |-> "", fills |-> <<>>, cancelTx |-> "null"],
    nodeReceipt |-> "unknown",
    nonce |-> -1,
    feeData |-> [maxFeePerGas |-> "", maxPriorityFeePerGas |-> ""],
    answer |-> "none",
    answered |-> [from |-> -1, to |-> -1],
    approvalTx |-> [to |-> "", data |-> <<>>],
    address |-> "",
    nodeUrl |-> "",
    signedTx |-> "",
    sentTx |-> "",
    sentNetwork |-> "",
    txRequest |-> [to |-> "", value |-> NoBig, data |-> <<>>, gas |-> "",
                   nonce |-> -1, chainId |-> 0, maxFeePerGas |-> "",
                   maxPriorityFeePerGas |-> ""] ]

NoResult == [kind |-> "none", error |-> "", value |-> <<>>]

IsCli ==
  cmd \in {"cli_swap", "cli_send", "cli_sign_message", "cli_sign",
           "cli_sign_typed_data", "cli_who_am_i", "cli_get_balance"}

Count(e) == Cardinality({i \in DOMAIN log : log[i] = e})

Logged(e) == \E i \in DOMAIN log : log[i] = e

\* every occurrence of a precedes every occurrence of b
Before(a, b) ==
  \A i, j \in DOMAIN log : (log[i] = a /\ log[j] = b) => i < j

\* a `throw` that reaches the entry point: the promise rejects; the CLI's
\* catch block writes the error line and calls process.exit(1)
Throw(msg) ==
  /\ pc' = "done"
  /\ result' = [kind |-> "err", error |-> msg, value |-> <<>>]
  /\ out' = IF IsCli THEN Append(out, "CHAINAI_ERR: EXECUTION_FAILED") ELSE out
  /\ exitCode' = IF IsCli THEN 1 ELSE exitCode
  /\ pending' = {}

\* a call of resolveNetwork on its own: it returns the chain or throws
ResolveNetwork_Call ==
  /\ cmd = "resolveNetwork"
  /\ pc = "start"
  /\ UNCHANGED <<cmd, input, local, log>>
  /\ IF resolveNetwork(input.network) = NoChain
     THEN Throw(UnsupportedNetworkMessage)
     ELSE /\ pc' = "done"
          /\ result' = [kind |-> "ok", error |-> "",
                        value |-> resolveNetwork(input.network)]
          /\ UNCHANGED <<pending, out, exitCode>>

-----------------------------------------------------------------------------
(* Swap: fetchTokenDecimals and the Promise.all join (swap.ts)             *)

\* the decimals a token contract can answer
DecimalsValues == {6, 18}

\* the quote responses of the order service
QuoteResponses == {"quote_a", "quote_b"}

APPROVAL_TX_HASH == "0xapprovaltxhash456"

ORDER_HASH == "0xorderhash1234567890"

TokenOf(side) == IF side = "from" THEN input.fromToken ELSE input.toToken

\* fetchTokenDecimals: the native token answers 18 without a request
fetchTokenDecimalsIsNative(tokenAddress) ==
  ToLowerCase(tokenAddress) = ToLowerCase(NATIVE_TOKEN_ADDRESS)

\* Promise.all([fetchTokenDecimals(fromToken), fetchTokenDecimals(toToken)]):
\* both lookups start at once; a native side is settled already
StartDecimalsLookups(next) ==
  LET sides == {sd \in {"from", "to"} : ~fetchTokenDecimalsIsNative(TokenOf(sd))}
      calls == (IF "from" \in sides THEN <<"call:decimals:from">> ELSE <<>>)
               \o (IF "to" \in sides THEN <<"call:decimals:to">> ELSE <<>>)
  IN /\ pending' = sides
     /\ log' = log \o calls
     /\ local' = [local EXCEPT
          !.chainId = resolveNetwork(input.network).id,
          !.rawAmount = NoBig,
          !.answered = [from |-> -1, to |-> -1],
          !.fromTokenDecimals = IF "from" \in sides THEN -1 ELSE 18,
          !.toTokenDecimals = IF "to" \in sides THEN -1 ELSE 18]
     /\ pc' = next

\* a variant of the step below that fills the results in the order in
\* which the lookups complete
FetchTokenDecimals_Settle_ByCompletion(side) ==
  /\ pc \in {"gq_await_decimals", "sso_await_decimals"}
  /\ side \in pending
  /\ \/ /\ isAddress(TokenOf(side))
        /\ \E d \in DecimalsValues :
             local' = [local EXCEPT
               !.answered[side] = d,
               !.fromTokenDecimals = IF @ = -1 THEN d ELSE @,
               !.toTokenDecimals =
                  IF local.fromTokenDecimals # -1 THEN d ELSE @]
        /\ pending' = pending \ {side}
        /\ log' = Append(log, "ret:decimals:" \o side)
        /\ UNCHANGED <<pc, result, out, exitCode>>
     \/ /\ log' = Append(log, "rej:decimals:" \o side)
        /\ Throw("decimals lookup failed")
        /\ UNCHANGED local
  /\ UNCHANGED <<cmd, input>>

\* one readContract({functionName: 'decimals'}) settles; viem rejects a
\* malformed address without asking the node.  Promise.all keeps each
\* result at the position of its lookup; answered records what the node
\* answered for each token.
FetchTokenDecimals_Settle(side) ==
  /\ pc \in {"gq_await_decimals", "sso_await_decimals"}
  /\ side \in pending
  /\ \/ /\ isAddress(TokenOf(side))
        /\ \E d \in DecimalsValues :
             local' = [local EXCEPT
               !.answered[side] = d,
               !.fromTokenDecimals = IF side = "from" THEN d ELSE @,
               !.toTokenDecimals = IF side = "to" THEN d ELSE @]
        /\ pending' = pending \ {side}
        /\ log' = Append(log, "ret:decimals:" \o side)
        /\ UNCHANGED <<pc, result, out, exitCode>>
     \/ /\ log' = Append(log, "rej:decimals:" \o side)
        /\ Throw("decimals lookup failed")
        /\ UNCHANGED local
  /\ UNCHANGED <<cmd, input>>

-----------------------------------------------------------------------------
(* getSwapQuote (swap.ts) and OneInchFusion.getQuote                       *)

GetSwapQuote_Start ==
  /\ pc = "gq_start"
  /\ UNCHANGED <<cmd, input>>
  /\ IF validateAndCreateAccount(input.privateKey) # ""
     THEN Throw(validateAndCreateAccount(input.privateKey))
          /\ UNCHANGED <<local, log>>
     ELSE IF ~isAddress(input.fromToken)
     THEN Throw("fromToken must be a valid 0x-prefixed address")
          /\ UNCHANGED <<local, log>>
     ELSE IF ~isAddress(input.toToken)
     THEN Throw("toToken must be a valid 0x-prefixed address")
          /\ UNCHANGED <<local, log>>
     ELSE IF AmountRejected(input.amount)
     THEN Throw("Amount must be a positive number")
          /\ UNCHANGED <<local, log>>
     ELSE IF resolveNetwork(input.network) = NoChain
     THEN Throw(UnsupportedNetworkMessage)
          /\ UNCHANGED <<local, log>>
     ELSE StartDecimalsLookups("gq_await_decimals")
          /\ UNCHANGED <<result, out, exitCode>>

\* after the join: scale the amount and ask the service for a quote
GetSwapQuote_AfterDecimals ==
  /\ pc = "gq_await_decimals"
  /\ pending = {}
  /\ UNCHANGED <<cmd, input>>
  /\ LET parsed == parseUnits(input.amount, local.fromTokenDecimals)
     IN IF ~parsed.ok
        THEN Throw("InvalidDecimalNumberError") /\ UNCHANGED <<local, log>>
        ELSE /\ local' = [local EXCEPT !.rawAmount = parsed.val]
             /\ log' = Append(log, "call:quote")
             /\ pc' = "gq_await_quote"
             /\ UNCHANGED <<pending, result, out, exitCode>>

\* what the swap command does with the quote: print it, then
\* `options.yes || (await askYesNo(...))`
GetSwapQuote_Return ==
  /\ pc = "gq_await_quote"
  /\ UNCHANGED <<cmd, input, pending>>
  /\ \/ /\ log' = Append(log, "rej:quote")
        /\ Throw("Failed to fetch quote from 1inch")
        /\ UNCHANGED local
     \/ \E q \in QuoteResponses :
          /\ local' = [local EXCEPT !.shownQuote = q]
          /\ IF cmd = "cli_swap"
             THEN /\ out' = Append(out, "CHAINAI_OK: Swap quote retrieved successfully")
                  /\ result' = result
                  /\ exitCode' = exitCode
                  /\ IF input.yes
                     THEN /\ pc' = "sso_start"
                          /\ log' = Append(log, "ret:quote")
                     ELSE /\ pc' = "await_prompt"
                          /\ log' = log \o <<"ret:quote", "call:prompt">>
             ELSE /\ pc' = "done"
                  /\ result' = [kind |-> "ok", error |-> "",
                                value |-> [fromToken |-> input.fromToken,
                                           toToken |-> input.toToken,
                                           amount |-> input.amount,
                                           estimatedReturn |-> q,
                                           chainId |-> local.chainId]]
                  /\ log' = Append(log, "ret:quote")
                  /\ UNCHANGED <<out, exitCode>>

-----------------------------------------------------------------------------
(* The swap command's confirmation prompt (index.ts)                       *)

\* askYesNo: the answer read from standard input
Answers == {"y", "YES", "n", ""}

\* a variant of the test below that takes the empty line for a yes
AnswerIsYes_EmptyIsYes(answer) == answer \in {"y", "YES", ""}

AnswerIsYes(answer) == answer \in {"y", "YES"}

CliSwap_Start ==
  /\ cmd = "cli_swap"
  /\ pc = "start"
  /\ UNCHANGED <<cmd, input, local, log>>
  /\ IF input.privateKey = ""
     THEN Throw("Private key is required")
     ELSE /\ pc' = "gq_start"
          /\ UNCHANGED <<pending, result, out, exitCode>>

CliSwap_Answer ==
  /\ cmd = "cli_swap"
  /\ pc = "await_prompt"
  /\ \E answer \in Answers :
       /\ local' = [local EXCEPT !.confirmed = AnswerIsYes(answer),
                                 !.answer = answer]
       /\ log' = Append(log, "ret:prompt")
       /\ IF AnswerIsYes(answer)
          THEN pc' = "sso_start" /\ exitCode' = exitCode
          ELSE pc' = "done" /\ exitCode' = 0
  /\ UNCHANGED <<cmd, input, pending, result, out>>

-----------------------------------------------------------------------------
(* submitSwapOrder (swap.ts) with OneInchFusion.isApprovalRequired,        *)
(* setApproval, getQuote and submitOrder (oneInchFusion.ts)                *)

RECURSIVE DecMag(_)
\* the magnitude minus one, for a magnitude that is not zero
DecMag(d) ==
  IF d[Len(d)] > 0 THEN StripZeros([d EXCEPT ![Len(d)] = @ - 1])
  ELSE StripZeros(DecMag(SubSeq(d, 1, Len(d) - 1)) \o <<9>>)

\* the allowances the token contract can answer, around the amount asked
AllowanceValues(amount) ==
  {BigInt(FALSE, <<0>>), BigInt(FALSE, amount.mag),
   BigInt(FALSE, amount.mag \o <<0>>)}
  \cup (IF amount.mag # <<0>> THEN {BigInt(FALSE, DecMag(amount.mag))} ELSE {})

SubmitSwapOrder_Start ==
  /\ pc = "sso_start"
  /\ UNCHANGED <<cmd, input>>
  /\ IF validateAndCreateAccount(input.privateKey) # ""
     THEN Throw(validateAndCreateAccount(input.privateKey))
          /\ UNCHANGED <<local, log>>
     ELSE IF resolveNetwork(input.network) = NoChain
     THEN Throw(UnsupportedNetworkMessage)
          /\ UNCHANGED <<local, log>>
     ELSE StartDecimalsLookups("sso_await_decimals")
          /\ UNCHANGED <<result, out, exitCode>>

\* isApprovalRequired answers false for the sentinel without a request
isApprovalRequiredIsNative(tokenAddress) == tokenAddress = NATIVE_TOKEN_ADDRESS

\* after the join: scale the amount, then call isApprovalRequired
SubmitSwapOrder_AfterDecimals ==
  /\ pc = "sso_await_decimals"
  /\ pending = {}
  /\ UNCHANGED <<cmd, input>>
  /\ LET parsed == parseUnits(input.amount, local.fromTokenDecimals)
     IN IF ~parsed.ok
        THEN Throw("InvalidDecimalNumberError") /\ UNCHANGED <<local, log>>
        ELSE /\ local' = [local EXCEPT !.rawAmount = parsed.val]
             /\ log' = IF isApprovalRequiredIsNative(input.fromToken)
                       THEN log
                       ELSE Append(log, "call:allowance")
             /\ pc' = "sso_await_needsApproval"
             /\ UNCHANGED <<pending, result, out, exitCode>>

\* `if (tokeAllowanceData < amount) return true`
isApprovalRequired(allowance, amount) == BigLess(allowance, amount)

\* a variant of the step below without `if (needsApproval)`: setApproval is
\* never called
SubmitSwapOrder_NeedsApproval_NoSetApproval ==
  /\ pc = "sso_await_needsApproval"
  /\ UNCHANGED <<cmd, input>>
  /\ IF isApprovalRequiredIsNative(input.fromToken)
     THEN /\ local' = [local EXCEPT !.needsApproval = FALSE]
          /\ log' = Append(log, "call:quote")
          /\ pc' = "sso_await_quote"
          /\ UNCHANGED <<pending, result, out, exitCode>>
     ELSE \/ /\ log' = Append(log, "rej:allowance")
             /\ Throw("allowance read failed")
             /\ UNCHANGED local
          \/ /\ isAddress(input.fromToken)
             /\ \E a \in AllowanceValues(local.rawAmount) :
                  /\ local' = [local EXCEPT
                       !.allowance = a,
                       !.needsApproval = isApprovalRequired(a, local.rawAmount)]
                  /\ log' = log \o <<"ret:allowance", "call:quote">>
                  /\ pc' = "sso_await_quote"
             /\ UNCHANGED <<pending, result, out, exitCode>>

\* the spender imported from ./configs
ONEINCH_APPROVAL_ADDRESS == "ONEINCH_APPROVAL_ADDRESS"

HexDigitVal(c) ==
  CASE c \in DigitChars -> DigitVal(c)
    [] c \in {"a", "A"} -> 10 [] c \in {"b", "B"} -> 11
    [] c \in {"c", "C"} -> 12 [] c \in {"d", "D"} -> 13
    [] c \in {"e", "E"} -> 14 [] c \in {"f", "F"} -> 15

\* l * m + carry on numbers held as limbs of four decimal digits
RECURSIVE LimbMulAdd(_, _, _)
LimbMulAdd(l, m, carry) ==
  IF l = <<>>
  THEN IF carry = 0 THEN <<>>
       ELSE IF carry < 10000 THEN <<carry>>
       ELSE <<carry \div 10000, carry % 10000>>
  ELSE LET v == l[Len(l)] * m + carry
       IN Append(LimbMulAdd(SubSeq(l, 1, Len(l) - 1), m, v \div 10000),
                 v % 10000)

\* the limbs of a string of hex digits, read four digits at a time
RECURSIVE HexToLimbs(_)
HexToLimbs(h) ==
  IF h = <<>> THEN <<>>
  ELSE LET k == IF Len(h) < 4 THEN Len(h) ELSE 4
           c == [i \in 1 .. 4 - k |-> "0"] \o SubSeq(h, Len(h) - k + 1, Len(h))
           chunk == HexDigitVal(c[1]) * 4096 + HexDigitVal(c[2]) * 256
                    + HexDigitVal(c[3]) * 16 + HexDigitVal(c[4])
       IN LimbMulAdd(HexToLimbs(SubSeq(h, 1, Len(h) - k)), 65536, chunk)

\* BigInt('0x...') of the hex digits after 0x
HexToBigInt(h) ==
  LET l == HexToLimbs(h)
      digit(i) == LET limb == l[(i - 1) \div 4 + 1]
                      place == (i - 1) % 4
                  IN CASE place = 0 -> limb \div 1000
                       [] place = 1 -> (limb \div 100) % 10
                       [] place = 2 -> (limb \div 10) % 10
                       [] OTHER -> limb % 10
  IN BigInt(FALSE, [i \in 1 .. 4 * Len(l) |-> digit(i)])

\* a variant of the request below whose literal has one f less
setApprovalTx_ShortLiteral(tokenAddress) ==
  [to |-> tokenAddress,
   data |-> <<"approve", ONEINCH_APPROVAL_ADDRESS,
              HexToBigInt([i \in 1 .. 63 |-> "f"])>>]

\* setApproval: the request before prepareTransactionRequest;
\* encodeFunctionData({functionName: 'approve', args: [spender, 0xff..ff]})
setApprovalTx(tokenAddress) ==
  [to |-> tokenAddress,
   data |-> <<"approve", ONEINCH_APPROVAL_ADDRESS,
              HexToBigInt([i \in 1 .. 64 |-> "f"])>>]

\* isApprovalRequired settles; then setApproval is called, or getQuote
SubmitSwapOrder_NeedsApproval ==
  /\ pc = "sso_await_needsApproval"
  /\ UNCHANGED <<cmd, input>>
  /\ IF isApprovalRequiredIsNative(input.fromToken)
     THEN /\ local' = [local EXCEPT !.needsApproval = FALSE]
          /\ log' = Append(log, "call:quote")
          /\ pc' = "sso_await_quote"
          /\ UNCHANGED <<pending, result, out, exitCode>>
     ELSE \/ /\ log' = Append(log, "rej:allowance")
             /\ Throw("allowance read failed")
             /\ UNCHANGED local
          \/ /\ isAddress(input.fromToken)
             /\ \E a \in AllowanceValues(local.rawAmount) :
                  LET needs == isApprovalRequired(a, local.rawAmount)
                  IN /\ local' = [local EXCEPT
                            !.allowance = a,
                            !.needsApproval = needs,
                            !.approvalTx = IF needs
                                           THEN setApprovalTx(input.fromToken)
                                           ELSE @]
                     /\ log' = log \o <<"ret:allowance",
                                 IF needs THEN "call:prepare:approval"
                                 ELSE "call:quote">>
                     /\ pc' = IF needs THEN "approve_await_prepare"
                              ELSE "sso_await_quote"
             /\ UNCHANGED <<pending, result, out, exitCode>>

\* setApproval: prepareTransactionRequest settled; sign, then broadcast
SetApproval_Prepared ==
  /\ pc = "approve_await_prepare"
  /\ UNCHANGED <<cmd, input>>
  /\ \/ /\ log' = Append(log, "rej:prepare:approval")
        /\ Throw("prepareTransactionRequest failed")
        /\ UNCHANGED local
     \/ /\ log' = log \o <<"ret:prepare:approval", "call:sendRaw:approval">>
        /\ pc' = "approve_await_send"
        /\ UNCHANGED <<local, pending, result, out, exitCode>>

\* a variant of the step below without `await waitForTransactionReceipt`:
\* setApproval returns as soon as the node has accepted the transaction
SetApproval_Sent_NoWait ==
  /\ pc = "approve_await_send"
  /\ UNCHANGED <<cmd, input>>
  /\ \/ /\ log' = Append(log, "rej:sendRaw:approval")
        /\ Throw("sendRawTransaction failed")
        /\ UNCHANGED local
     \/ /\ log' = log \o <<"ret:sendRaw:approval", "call:quote">>
        /\ local' = [local EXCEPT !.approvalTxHash = APPROVAL_TX_HASH]
        /\ pc' = "sso_await_quote"
        /\ UNCHANGED <<pending, result, out, exitCode>>

\* setApproval: sendRawTransaction settled; wait for the receipt
SetApproval_Sent ==
  /\ pc = "approve_await_send"
  /\ UNCHANGED <<cmd, input>>
  /\ \/ /\ log' = Append(log, "rej:sendRaw:approval")
        /\ Throw("sendRawTransaction failed")
        /\ UNCHANGED local
     \/ /\ log' = log \o <<"ret:sendRaw:approval", "call:receipt:approval">>
        /\ pc' = "approve_await_receipt"
        /\ UNCHANGED <<local, pending, result, out, exitCode>>

\* what setApproval does with the mined receipt `res`
SetApproval_OnReceipt(status) ==
  /\ local' = [local EXCEPT !.approvalReceipt = status,
                            !.approvalTxHash = APPROVAL_TX_HASH]
  /\ log' = log \o <<"ret:receipt:approval", "call:quote">>
  /\ pc' = "sso_await_quote"
  /\ UNCHANGED <<pending, result, out, exitCode>>

\* setApproval: waitForTransactionReceipt settled
SetApproval_Receipt ==
  /\ pc = "approve_await_receipt"
  /\ UNCHANGED <<cmd, input>>
  /\ \/ /\ log' = Append(log, "rej:receipt:approval")
        /\ Throw("waitForTransactionReceipt failed")
        /\ UNCHANGED local
     \/ \E status \in {"success", "reverted"} : SetApproval_OnReceipt(status)

\* the quote "for the result" settled; submitOrder starts with createOrder
SubmitSwapOrder_Quote ==
  /\ pc = "sso_await_quote"
  /\ UNCHANGED <<cmd, input>>
  /\ \/ /\ log' = Append(log, "rej:quote")
        /\ Throw("Failed to fetch quote from 1inch")
        /\ UNCHANGED local
     \/ \E q \in QuoteResponses :
          /\ local' = [local EXCEPT !.quote = q]
          /\ log' = log \o <<"ret:quote", "call:createOrder">>
          /\ pc' = "so_await_createOrder"
          /\ UNCHANGED <<pending, result, out, exitCode>>

\* submitOrder takes the token path unless the source is the sentinel
submitOrderIsNative(fromTokenAddress) ==
  ~(fromTokenAddress # NATIVE_TOKEN_ADDRESS)

\* submitOrder: sdk.createOrder settled; submit on the path of the source
SubmitOrder_Created ==
  /\ pc = "so_await_createOrder"
  /\ UNCHANGED <<cmd, input>>
  /\ \/ /\ log' = Append(log, "rej:createOrder")
        /\ Throw("Failed to submit order to 1inch")
        /\ UNCHANGED local
     \/ /\ log' = log \o <<"ret:createOrder",
                    IF submitOrderIsNative(input.fromToken)
                    THEN "call:submitNativeOrder" ELSE "call:submitOrder">>
        /\ pc' = IF submitOrderIsNative(input.fromToken)
                 THEN "so_await_submitNative" ELSE "so_await_submit"
        /\ UNCHANGED <<local, pending, result, out, exitCode>>

\* submitSwapOrder's return value, and what the swap command prints
SubmitSwapOrder_Return(orderHash) ==
  /\ pc' = "done"
  /\ result' = [kind |-> "ok", error |-> "",
                value |-> [fromToken |-> input.fromToken,
                           toToken |-> input.toToken,
                           amount |-> input.amount,
                           estimatedReturn |-> local.quote,
                           chainId |-> local.chainId,
                           orderHash |-> orderHash,
                           approvalTxHash |-> local.approvalTxHash]]
  /\ out' = IF cmd = "cli_swap"
            THEN Append(out, "CHAINAI_OK: Swap order submitted successfully")
            ELSE out
  /\ exitCode' = IF cmd = "cli_swap" THEN 0 ELSE exitCode
  /\ pending' = pending

\* token path: sdk.submitOrder settled with info.orderHash
SubmitOrder_Submitted ==
  /\ pc = "so_await_submit"
  /\ UNCHANGED <<cmd, input>>
  /\ \/ /\ log' = Append(log, "rej:submitOrder")
        /\ Throw("Failed to submit order to 1inch")
        /\ UNCHANGED local
     \/ /\ log' = Append(log, "ret:submitOrder")
        /\ local' = [local EXCEPT !.serviceOrderHash = ORDER_HASH]
        /\ SubmitSwapOrder_Return(ORDER_HASH)

\* native path: sdk.submitNativeOrder settled; build the factory call
SubmitOrder_NativeSubmitted ==
  /\ pc = "so_await_submitNative"
  /\ UNCHANGED <<cmd, input>>
  /\ \/ /\ log' = Append(log, "rej:submitNativeOrder")
        /\ Throw("Failed to submit order to 1inch")
        /\ UNCHANGED local
     \/ /\ log' = log \o <<"ret:submitNativeOrder", "call:prepare:lock">>
        /\ local' = [local EXCEPT !.serviceOrderHash = ORDER_HASH]
        /\ pc' = "lock_await_prepare"
        /\ UNCHANGED <<pending, result, out, exitCode>>

\* native path: prepareTransactionRequest settled; sign, then broadcast
SubmitOrder_LockPrepared ==
  /\ pc = "lock_await_prepare"
  /\ UNCHANGED <<cmd, input, local>>
  /\ \/ /\ log' = Append(log, "rej:prepare:lock")
        /\ Throw("prepareTransactionRequest failed")
     \/ /\ log' = log \o <<"ret:prepare:lock", "call:sendRaw:lock">>
        /\ pc' = "lock_await_send"
        /\ UNCHANGED <<pending, result, out, exitCode>>

\* native path: sendRawTransaction settled; wait for the receipt
SubmitOrder_LockSent ==
  /\ pc = "lock_await_send"
  /\ UNCHANGED <<cmd, input, local>>
  /\ \/ /\ log' = Append(log, "rej:sendRaw:lock")
        /\ Throw("sendRawTransaction failed")
     \/ /\ log' = log \o <<"ret:sendRaw:lock", "call:receipt:lock">>
        /\ pc' = "lock_await_receipt"
        /\ UNCHANGED <<pending, result, out, exitCode>>

\* a variant of the step below without `if (res.status !== 'success')`
SubmitOrder_OnLockReceipt_Unchecked(status) ==
  /\ local' = [local EXCEPT !.lockReceipt = status]
  /\ log' = Append(log, "ret:receipt:lock")
  /\ SubmitSwapOrder_Return(local.serviceOrderHash)

\* native path: what submitOrder does with the mined receipt `res`
SubmitOrder_OnLockReceipt(status) ==
  /\ local' = [local EXCEPT !.lockReceipt = status]
  /\ log' = Append(log, "ret:receipt:lock")
  /\ IF status = "success"
     THEN SubmitSwapOrder_Return(local.serviceOrderHash)
     ELSE Throw("Native Transaction Failed")

\* native path: waitForTransactionReceipt settled
SubmitOrder_LockReceipt ==
  /\ pc = "lock_await_receipt"
  /\ UNCHANGED <<cmd, input>>
  /\ \/ /\ log' = Append(log, "rej:receipt:lock")
        /\ Throw("waitForTransactionReceipt failed")
        /\ UNCHANGED local
     \/ \E status \in {"success", "reverted"} : SubmitOrder_OnLockReceipt(status)

-----------------------------------------------------------------------------
(* swapOrderStatus (swap-order-status.ts) and OneInchFusion.getOrderStatus *)

\* the status labels of the order service: the SDK's OrderStatus values and
\* the label "fulfilled" that getOrderStatus looks for
ServiceStatuses ==
  {"pending", "fulfilled", "filled", "expired", "cancelled",
   "partially-filled", "false-predicate", "not-enough-balance-or-allowance",
   "wrong-permit", "invalid-signature"}

\* the fill records of a response: a transaction hash and the amount
\* filledAuctionTakerAmount (a decimal string, here its digits)
FillRecords ==
  {[txHash |-> "0xfilltxhash123",
    filledAuctionTakerAmount |-> <<1, 5, 0, 0, 0, 0, 0, 0, 0, 0>>],
   [txHash |-> "0xfilltxhash456", filledAuctionTakerAmount |-> <<0>>]}

RECURSIVE SeqsUpTo(_, _)
SeqsUpTo(S, n) ==
  IF n = 0 THEN {<<>>}
  ELSE LET shorter == SeqsUpTo(S, n - 1)
       IN shorter \cup {Append(q, x) : q \in shorter, x \in S}

ServiceResponses ==
  [status : ServiceStatuses,
   fills : SeqsUpTo(FillRecords, MaxFills),
   cancelTx : {"null", "0xcanceltx"}]

NoFinal == NoBig

\* a variant of the mapping below that passes every label through
MapStatus_Passthrough(status) == status

\* `if (status === 'fulfilled') status = 'filled'`
MapStatus(status) == IF status = "fulfilled" THEN "filled" ELSE status

\* the body of getOrderStatus's then-callback; ok is FALSE when it throws
\* (res.fills[0] is undefined for an empty list of fills)
getOrderStatus(res) ==
  LET status == MapStatus(res.status)
      retValue == [ok |-> TRUE, status |-> status, cancelTx |-> res.cancelTx,
                   fills |-> res.fills, finalToAmount |-> NoFinal]
  IN IF status = "filled"
     THEN IF res.fills = <<>>
          THEN [retValue EXCEPT !.ok = FALSE]
          ELSE [retValue EXCEPT
                  !.finalToAmount = BigInt(FALSE, res.fills[1].filledAuctionTakerAmount)]
     ELSE retValue

\* JavaScript truthiness of `status.finalToAmount` (undefined and 0n are falsy)
Truthy(big) == big # NoFinal /\ big.mag # <<0>>

\* the object swapOrderStatus returns; finalToAmount <<>> stands for null
swapOrderStatusResult(orderHash, chain, status) ==
  [orderHash |-> orderHash,
   status |-> status.status,
   network |-> chain.name,
   fills |-> status.fills,
   cancelTx |-> status.cancelTx,
   finalToAmount |-> IF Truthy(status.finalToAmount)
                     THEN status.finalToAmount.mag ELSE <<>>]

SwapOrderStatus_Start ==
  /\ cmd = "swapOrderStatus"
  /\ pc = "start"
  /\ UNCHANGED <<cmd, input>>
  /\ IF validateAndCreateAccount(input.privateKey) # ""
     THEN Throw(validateAndCreateAccount(input.privateKey))
          /\ UNCHANGED <<local, log>>
     ELSE IF input.orderHash = ""
     THEN Throw("Order hash is required") /\ UNCHANGED <<local, log>>
     ELSE IF resolveNetwork(input.network) = NoChain
     THEN Throw(UnsupportedNetworkMessage) /\ UNCHANGED <<local, log>>
     ELSE /\ local' = [local EXCEPT !.chainId = resolveNetwork(input.network).id]
          /\ log' = Append(log, "call:orderStatus")
          /\ pc' = "await_orderStatus"
          /\ UNCHANGED <<pending, result, out, exitCode>>

SwapOrderStatus_Return ==
  /\ cmd = "swapOrderStatus"
  /\ pc = "await_orderStatus"
  /\ UNCHANGED <<cmd, input>>
  /\ \/ /\ log' = Append(log, "rej:orderStatus")
        /\ Throw("order status request failed")
        /\ UNCHANGED local
     \/ \E res \in ServiceResponses :
          /\ log' = Append(log, "ret:orderStatus")
          /\ local' = [local EXCEPT !.response = res]
          /\ IF ~getOrderStatus(res).ok
             THEN Throw("TypeError: Cannot read properties of undefined")
             ELSE /\ pc' = "done"
                  /\ result' =
                       [kind |-> "ok", error |-> "",
                        value |-> swapOrderStatusResult(
                                    input.orderHash,
                                    resolveNetwork(input.network),
                                    getOrderStatus(res))]
                  /\ UNCHANGED <<pending, out, exitCode>>

-----------------------------------------------------------------------------
(* txStatus (tx-status.ts)                                                 *)

TEST_FROM == "0xf39Fd6e51aad88F6F4ce6aB8827279cffFb92266"

TEST_TO == "0x70997970C51812dc3A010C7d01b50e0d17dc79C8"

\* the receipts a node can hold for the hash; `to` is null for a contract
\* creation
Receipts ==
  [status : {"success", "reverted"},
   blockNumber : {"12345678"},
   from : {TEST_FROM},
   to : {TEST_TO, "null"},
   gasUsed : {"21000"},
   effectiveGasPrice : {"30000000000"}]

\* the value of `receipt` when the client resolves with no receipt
NullReceipt ==
  [status |-> "null", blockNumber |-> "null", from |-> "null", to |-> "null",
   gasUsed |-> "null", effectiveGasPrice |-> "null"]

\* the object txStatus returns for the value of `receipt`
txStatusResult(hash, chain, receipt) ==
  IF receipt = NullReceipt
  THEN [transactionHash |-> hash, status |-> "pending", network |-> chain.name,
        blockNumber |-> "null", from |-> "null", to |-> "null",
        gasUsed |-> "null", effectiveGasPrice |-> "null"]
  ELSE [transactionHash |-> hash,
        status |-> IF receipt.status = "success" THEN "success" ELSE "reverted",
        network |-> chain.name,
        blockNumber |-> receipt.blockNumber,
        from |-> receipt.from,
        to |-> receipt.to,
        gasUsed |-> receipt.gasUsed,
        effectiveGasPrice |-> receipt.effectiveGasPrice]

\* a variant of the step below that checks the length of the hash only
\* after asking the node for the receipt
TxStatus_Start_LengthAfterRequest ==
  /\ cmd = "txStatus"
  /\ pc = "start"
  /\ UNCHANGED <<cmd, input, local>>
  /\ IF input.hash = "" \/ ~isHex(input.hash)
     THEN Throw("Transaction hash must be a valid 0x-prefixed hex string")
          /\ UNCHANGED log
     ELSE IF resolveNetwork(input.network) = NoChain
     THEN Throw(UnsupportedNetworkMessage) /\ UNCHANGED log
     ELSE IF StrLen(input.hash) # 66
     THEN Throw("Transaction hash must be exactly 32 bytes")
          /\ log' = Append(log, "call:getReceipt")
     ELSE /\ log' = Append(log, "call:getReceipt")
          /\ pc' = "await_getReceipt"
          /\ UNCHANGED <<pending, result, out, exitCode>>

TxStatus_Start ==
  /\ cmd = "txStatus"
  /\ pc = "start"
  /\ UNCHANGED <<cmd, input, local>>
  /\ IF input.hash = "" \/ ~isHex(input.hash)
     THEN Throw("Transaction hash must be a valid 0x-prefixed hex string")
          /\ UNCHANGED log
     ELSE IF StrLen(input.hash) # 66
     THEN Throw("Transaction hash must be exactly 32 bytes") /\ UNCHANGED log
     ELSE IF resolveNetwork(input.network) = NoChain
     THEN Throw(UnsupportedNetworkMessage) /\ UNCHANGED log
     ELSE /\ log' = Append(log, "call:getReceipt")
          /\ pc' = "await_getReceipt"
          /\ UNCHANGED <<pending, result, out, exitCode>>

\* how client.getTransactionReceipt settles when the node holds no receipt
\* for the hash: the repository's tests resolve it with null; viem's client
\* rejects it with TransactionReceiptNotFoundError
NoReceiptOutcomes == {"resolves_null", "rejects_not_found"}

\* the continuation of `await client.getTransactionReceipt({ hash })`
TxStatus_OnReceipt(receipt) ==
  /\ pc' = "done"
  /\ result' = [kind |-> "ok", error |-> "",
                value |-> txStatusResult(input.hash,
                                         resolveNetwork(input.network), receipt)]
  /\ UNCHANGED <<pending, out, exitCode>>

TxStatus_Return ==
  /\ cmd = "txStatus"
  /\ pc = "await_getReceipt"
  /\ UNCHANGED <<cmd, input>>
  /\ \/ /\ log' = Append(log, "rej:getReceipt")
        /\ local' = [local EXCEPT !.nodeReceipt = "rpc_error"]
        /\ Throw("RPC request failed")
     \/ \E o \in NoReceiptOutcomes :
          /\ local' = [local EXCEPT !.nodeReceipt = "none"]
          /\ IF o = "resolves_null"
             THEN /\ log' = Append(log, "ret:getReceipt")
                  /\ TxStatus_OnReceipt(NullReceipt)
             ELSE /\ log' = Append(log, "rej:getReceipt")
                  /\ Throw("TransactionReceiptNotFoundError")
     \/ \E r \in Receipts :
          /\ local' = [local EXCEPT !.nodeReceipt = r.status]
          /\ log' = Append(log, "ret:getReceipt")
          /\ TxStatus_OnReceipt(r)

-----------------------------------------------------------------------------
(* broadcast (broadcast.ts)                                                *)

SERIALIZED_TX == "0x02f86c0105843b9aca00851bf08eb000825208"

SERIALIZED_TOKEN_TX == "0x02f8b00105843b9aca00851bf08eb00082fde8"

\* account.signTransaction(txRequest): the serialized form of the signed
\* request; the model tells the form of a native transfer from the form of
\* a token transfer
SerializeSigned(txRequest) ==
  IF txRequest.data = <<>> THEN SERIALIZED_TX ELSE SERIALIZED_TOKEN_TX

\* broadcast({serializedTransaction, network}); the send command passes
\* result.serializedTransaction and options.network
Broadcast_Start ==
  /\ pc = "bc_start"
  /\ UNCHANGED <<cmd, input>>
  /\ LET tx == IF cmd = "cli_send" THEN result.value.serializedTransaction
               ELSE input.serializedTransaction
     IN IF tx = "" \/ ~isHex(tx)
        THEN Throw("Serialized transaction must be a valid 0x-prefixed hex string")
             /\ UNCHANGED <<local, log>>
        ELSE IF resolveNetwork(input.network) = NoChain
        THEN Throw(UnsupportedNetworkMessage) /\ UNCHANGED <<local, log>>
        ELSE /\ log' = Append(log, "call:sendRaw:transfer")
             /\ local' = [local EXCEPT
                  !.sentTx = tx,
                  !.sentNetwork = input.network,
                  !.nodeUrl = SUPPORTED_NETWORKS_NAME_MAP(
                                resolveNetwork(input.network).id).nodeUrl]
             /\ pc' = "bc_await_send"
             /\ UNCHANGED <<pending, result, out, exitCode>>

\* a variant of the step below that sends the transaction again when the
\* node rejects it
Broadcast_Sent_Resend ==
  /\ pc = "bc_await_send"
  /\ UNCHANGED <<cmd, input, local>>
  /\ \/ /\ Count("call:sendRaw:transfer") < 3
        /\ log' = log \o <<"rej:sendRaw:transfer", "call:sendRaw:transfer">>
        /\ UNCHANGED <<pc, pending, result, out, exitCode>>
     \/ /\ log' = Append(log, "ret:sendRaw:transfer")
        /\ pc' = "done"
        /\ result' = [kind |-> "ok", error |-> "",
                      value |-> [transactionHash |-> FAKE_TX_HASH,
                                 network |-> resolveNetwork(input.network).name]]
        /\ out' = IF cmd = "cli_send"
                  THEN Append(out, "CHAINAI_OK: Transaction broadcast successfully")
                  ELSE out
        /\ exitCode' = IF cmd = "cli_send" THEN 0 ELSE exitCode
        /\ pending' = pending

\* broadcast: sendRawTransaction settled
Broadcast_Sent ==
  /\ pc = "bc_await_send"
  /\ UNCHANGED <<cmd, input, local>>
  /\ \/ /\ log' = Append(log, "rej:sendRaw:transfer")
        /\ Throw("sendRawTransaction failed")
     \/ /\ log' = Append(log, "ret:sendRaw:transfer")
        /\ pc' = "done"
        /\ result' = [kind |-> "ok", error |-> "",
                      value |-> [transactionHash |-> FAKE_TX_HASH,
                                 network |-> resolveNetwork(input.network).name]]
        /\ out' = IF cmd = "cli_send"
                  THEN Append(out, "CHAINAI_OK: Transaction broadcast successfully")
                  ELSE out
        /\ exitCode' = IF cmd = "cli_send" THEN 0 ELSE exitCode
        /\ pending' = pending

-----------------------------------------------------------------------------
(* send (send.ts) and the send command (index.ts)                          *)

\* the transaction counts the node can answer
Nonces == {0, 5}

\* the fee estimates the node can answer (estimateFeesPerGas), in wei
FeeEstimates ==
  {[maxFeePerGas |-> "30000000000", maxPriorityFeePerGas |-> "1000000000"],
   [maxFeePerGas |-> "20000000000", maxPriorityFeePerGas |-> "2000000000"]}

\* the gas estimates the node can answer (estimateGas)
GasEstimates == {"21000", "65000"}

NATIVE_DECIMALS == 18

\* a variant of the test below without toLowerCase()
sendIsNative_CaseSensitive(token) == token = NATIVE_TOKEN_ADDRESS

\* send: `token.toLowerCase() === NATIVE_TOKEN_ADDRESS`
sendIsNative(token) == ToLowerCase(token) = NATIVE_TOKEN_ADDRESS

\* encodeFunctionData({functionName: 'transfer', args: [to, rawAmount]})
EncodeTransfer(to, rawAmount) == <<"transfer", to, rawAmount>>

CliSend_Start ==
  /\ cmd = "cli_send"
  /\ pc = "start"
  /\ UNCHANGED <<cmd, input, local, log>>
  /\ IF input.privateKey = ""
     THEN Throw("Private key is required")
     ELSE /\ pc' = "send_start"
          /\ UNCHANGED <<pending, result, out, exitCode>>

Send_Start ==
  /\ pc = "send_start"
  /\ UNCHANGED <<cmd, input>>
  /\ IF validateAndCreateAccount(input.privateKey) # ""
     THEN Throw(validateAndCreateAccount(input.privateKey))
          /\ UNCHANGED <<local, log>>
     ELSE IF ~isAddress(input.to)
     THEN Throw("Recipient \"to\" must be a valid 0x-prefixed address")
          /\ UNCHANGED <<local, log>>
     ELSE IF ~isAddress(input.token)
     THEN Throw("Token must be a valid 0x-prefixed address")
          /\ UNCHANGED <<local, log>>
     ELSE IF AmountRejected(input.amount)
     THEN Throw("Amount must be a positive number")
          /\ UNCHANGED <<local, log>>
     ELSE IF resolveNetwork(input.network) = NoChain
     THEN Throw(UnsupportedNetworkMessage)
          /\ UNCHANGED <<local, log>>
     ELSE /\ local' = [local EXCEPT !.chainId = resolveNetwork(input.network).id]
          /\ log' = Append(log, "call:txCount")
          /\ pc' = "send_await_txCount"
          /\ UNCHANGED <<pending, result, out, exitCode>>

Send_TxCount ==
  /\ pc = "send_await_txCount"
  /\ UNCHANGED <<cmd, input>>
  /\ \/ /\ log' = Append(log, "rej:txCount")
        /\ Throw("getTransactionCount failed")
        /\ UNCHANGED local
     \/ \E n \in Nonces :
          /\ local' = [local EXCEPT !.nonce = n]
          /\ log' = log \o <<"ret:txCount", "call:fees">>
          /\ pc' = "send_await_fees"
          /\ UNCHANGED <<pending, result, out, exitCode>>

\* the fee estimate settled; the native branch scales the amount and
\* estimates gas, the token branch reads decimals() first
Send_Fees ==
  /\ pc = "send_await_fees"
  /\ UNCHANGED <<cmd, input>>
  /\ \/ /\ log' = Append(log, "rej:fees")
        /\ Throw("estimateFeesPerGas failed")
        /\ UNCHANGED local
     \/ \E feeData \in FeeEstimates :
          IF sendIsNative(input.token)
          THEN LET parsed == parseUnits(input.amount, NATIVE_DECIMALS)
               IN IF ~parsed.ok
                  THEN /\ log' = Append(log, "ret:fees")
                       /\ Throw("InvalidDecimalNumberError")
                       /\ local' = [local EXCEPT !.feeData = feeData]
                  ELSE /\ local' = [local EXCEPT !.rawAmount = parsed.val,
                                                 !.feeData = feeData]
                       /\ log' = log \o <<"ret:fees", "call:estimateGas">>
                       /\ pc' = "send_await_gas"
                       /\ UNCHANGED <<pending, result, out, exitCode>>
          ELSE /\ local' = [local EXCEPT !.feeData = feeData]
               /\ log' = log \o <<"ret:fees", "call:decimals:token">>
               /\ pc' = "send_await_decimals"
               /\ UNCHANGED <<pending, result, out, exitCode>>

Send_Decimals ==
  /\ pc = "send_await_decimals"
  /\ UNCHANGED <<cmd, input>>
  /\ \/ /\ log' = Append(log, "rej:decimals:token")
        /\ Throw("decimals lookup failed")
        /\ UNCHANGED local
     \/ \E d \in DecimalsValues :
          LET parsed == parseUnits(input.amount, d)
          IN IF ~parsed.ok
             THEN /\ log' = Append(log, "ret:decimals:token")
                  /\ Throw("InvalidDecimalNumberError")
                  /\ UNCHANGED local
             ELSE /\ local' = [local EXCEPT !.rawAmount = parsed.val,
                                            !.fromTokenDecimals = d]
                  /\ log' = log \o <<"ret:decimals:token", "call:estimateGas">>
                  /\ pc' = "send_await_gas"
                  /\ UNCHANGED <<pending, result, out, exitCode>>

\* the txRequest object of the branch taken, for the gas estimate the node
\* answered; a value of NoBig and a data of <<>> stand for a field left out
sendTxRequest(gas) ==
  IF sendIsNative(input.token)
  THEN [to |-> input.to, value |-> local.rawAmount, data |-> <<>>,
        gas |-> gas, nonce |-> local.nonce, chainId |-> local.chainId,
        maxFeePerGas |-> local.feeData.maxFeePerGas,
        maxPriorityFeePerGas |-> local.feeData.maxPriorityFeePerGas]
  ELSE [to |-> input.token, value |-> NoBig,
        data |-> EncodeTransfer(input.to, local.rawAmount),
        gas |-> gas, nonce |-> local.nonce, chainId |-> local.chainId,
        maxFeePerGas |-> local.feeData.maxFeePerGas,
        maxPriorityFeePerGas |-> local.feeData.maxPriorityFeePerGas]

\* a variant of the step below in which send submits what it has signed
Send_Gas_Broadcasting ==
  /\ pc = "send_await_gas"
  /\ UNCHANGED <<cmd, input, pending, out, exitCode>>
  /\ \E gas \in GasEstimates :
       /\ local' = [local EXCEPT !.txRequest = sendTxRequest(gas),
                                 !.signedTx = SerializeSigned(sendTxRequest(gas))]
       /\ log' = log \o <<"ret:estimateGas", "call:sendRaw:transfer">>
       /\ result' = [kind |-> "ok", error |-> "",
                     value |-> [to |-> input.to, token |-> input.token,
                                amount |-> input.amount,
                                network |-> resolveNetwork(input.network).name,
                                serializedTransaction |->
                                  SerializeSigned(sendTxRequest(gas))]]
       /\ pc' = "done"

\* the gas estimate settled; sign and return, and in the send command
\* print, then `options.broadcast || (await askYesNo(...))`
Send_Gas ==
  /\ pc = "send_await_gas"
  /\ UNCHANGED <<cmd, input, pending>>
  /\ \/ /\ log' = Append(log, "rej:estimateGas")
        /\ Throw("estimateGas failed")
        /\ UNCHANGED local
     \/ \E gas \in GasEstimates :
          /\ local' = [local EXCEPT !.txRequest = sendTxRequest(gas),
                                    !.signedTx = SerializeSigned(sendTxRequest(gas))]
          /\ result' = [kind |-> "ok", error |-> "",
                        value |-> [to |-> input.to, token |-> input.token,
                                   amount |-> input.amount,
                                   network |-> resolveNetwork(input.network).name,
                                   serializedTransaction |->
                                  SerializeSigned(sendTxRequest(gas))]]
          /\ IF cmd = "cli_send"
             THEN /\ out' = Append(out, "CHAINAI_OK: Transaction created successfully")
                  /\ exitCode' = exitCode
                  /\ IF input.broadcast
                     THEN /\ pc' = "bc_start"
                          /\ log' = Append(log, "ret:estimateGas")
                     ELSE /\ pc' = "send_await_prompt"
                          /\ log' = log \o <<"ret:estimateGas", "call:prompt">>
             ELSE /\ pc' = "done"
                  /\ log' = Append(log, "ret:estimateGas")
                  /\ UNCHANGED <<out, exitCode>>

CliSend_Answer ==
  /\ cmd = "cli_send"
  /\ pc = "send_await_prompt"
  /\ \E answer \in Answers :
       /\ local' = [local EXCEPT !.confirmed = AnswerIsYes(answer),
                                 !.answer = answer]
       /\ log' = Append(log, "ret:prompt")
       /\ IF AnswerIsYes(answer)
          THEN pc' = "bc_start" /\ exitCode' = exitCode
          ELSE pc' = "done" /\ exitCode' = 0
  /\ UNCHANGED <<cmd, input, pending, result, out>>

-----------------------------------------------------------------------------
(* signTransaction (sign-transaction.ts) with the serializer and the       *)
(* parser of the library it calls.  A transaction is a record; a number    *)
(* field of -1, a `to` or `data` of "" and hasAccessList = FALSE stand for *)
(* a field left out.  A serialized transaction is [prefix, items]: the     *)
(* type byte (192 for the list marker of a legacy transaction) and the     *)
(* RLP items, numbers as big-endian bytes.                                 *)

NoTx ==
  [type |-> "", to |-> "", value |-> -1, data |-> "", gas |-> -1,
   nonce |-> -1, chainId |-> -1, gasPrice |-> -1, maxFeePerGas |-> -1,
   maxPriorityFeePerGas |-> -1, hasAccessList |-> FALSE, accessList |-> <<>>]

\* toHex(n) as RLP reads it: the big-endian bytes of n without leading zeros
RECURSIVE NumberToBytes(_)
NumberToBytes(n) ==
  IF n = 0 THEN <<>> ELSE Append(NumberToBytes(n \div 256), n % 256)

\* hexToNumber / hexToBigInt of an item
RECURSIVE BytesToNumber(_)
BytesToNumber(b) ==
  IF b = <<>> THEN 0
  ELSE BytesToNumber(SubSeq(b, 1, Len(b) - 1)) * 256 + b[Len(b)]

\* `field ? toHex(field) : '0x'`
NumberItem(n) == IF n <= 0 THEN <<>> ELSE NumberToBytes(n)

\* `to ?? '0x'` and `data ?? '0x'`: the bytes of an address carry no
\* letter-casing
AddressItem(to) == IF to = "" THEN <<>> ELSE <<ToLowerCase(to)>>

DataItem(data) == IF data \in {"", "0x"} THEN <<>> ELSE <<data>>

\* serializeAccessList
AccessListItem(tx) ==
  IF tx.hasAccessList
  THEN [i \in 1 .. Len(tx.accessList) |->
          <<ToLowerCase(tx.accessList[i].address), tx.accessList[i].storageKeys>>]
  ELSE <<>>

\* getTransactionType: the type given, or the one the fee fields imply
getTransactionType(tx) ==
  IF tx.type # "" THEN tx.type
  ELSE IF tx.maxFeePerGas # -1 \/ tx.maxPriorityFeePerGas # -1 THEN "eip1559"
  ELSE IF tx.gasPrice # -1
       THEN IF tx.hasAccessList THEN "eip2930" ELSE "legacy"
  ELSE "invalid"

NoSignature ==
  [present |-> FALSE, yParity |-> 0, signer |-> "",
   hash |-> [prefix |-> 0, items |-> <<>>]]

\* toYParitySignatureArray: yParity, r, s.  r stands for the signature made
\* by `signer` over `hash`.
SignatureItems(signature) ==
  <<IF signature.yParity = 1 THEN <<1>> ELSE <<>>,
    <<signature.signer, signature.hash>>,
    <<"s">>>>

\* the v of a signed legacy transaction: EIP-155 with a chain id, else 27/28
LegacyV(chainId, signature) ==
  IF chainId > 0
  THEN chainId * 2 + 35 + signature.yParity
  ELSE 27 + signature.yParity

\* serializeTransaction(transaction, signature)
serializeTransaction(tx, signature) ==
  LET type == getTransactionType(tx)
      sigItems == IF signature.present THEN SignatureItems(signature) ELSE <<>>
  IN CASE type = "eip1559" ->
            [prefix |-> 2,
             items |-> <<NumberToBytes(tx.chainId), NumberItem(tx.nonce),
                         NumberItem(tx.maxPriorityFeePerGas),
                         NumberItem(tx.maxFeePerGas), NumberItem(tx.gas),
                         AddressItem(tx.to), NumberItem(tx.value),
                         DataItem(tx.data), AccessListItem(tx)>> \o sigItems]
       [] type = "eip2930" ->
            [prefix |-> 1,
             items |-> <<NumberToBytes(tx.chainId), NumberItem(tx.nonce),
                         NumberItem(tx.gasPrice), NumberItem(tx.gas),
                         AddressItem(tx.to), NumberItem(tx.value),
                         DataItem(tx.data), AccessListItem(tx)>> \o sigItems]
       [] OTHER ->
            [prefix |-> 192,
             items |-> <<NumberItem(tx.nonce), NumberItem(tx.gasPrice),
                         NumberItem(tx.gas), AddressItem(tx.to),
                         NumberItem(tx.value), DataItem(tx.data)>>
                       \o (IF signature.present
                           THEN <<NumberToBytes(LegacyV(tx.chainId, signature)),
                                  SignatureItems(signature)[2],
                                  SignatureItems(signature)[3]>>
                           ELSE IF tx.chainId > 0
                           THEN <<NumberToBytes(tx.chainId), <<>>, <<>>>>
                           ELSE <<>>)]

\* `isHex(x) && x !== '0x' ? hexToBigInt(x) : undefined`
OptionalNumber(item) == IF item = <<>> THEN -1 ELSE BytesToNumber(item)

OptionalString(item) == IF item = <<>> THEN "" ELSE item[1]

\* parseAccessList
ParseAccessList(item) ==
  [i \in 1 .. Len(item) |-> [address |-> item[i][1], storageKeys |-> item[i][2]]]

\* the signature of a parsed typed transaction
ParsedSignature(items, first) ==
  IF Len(items) < first + 2 THEN NoSignature
  ELSE [present |-> TRUE,
        yParity |-> IF items[first] = <<>> THEN 0 ELSE 1,
        signer |-> items[first + 1][1],
        hash |-> items[first + 1][2]]

\* parseTransaction(serializedTransaction): the transaction and its signature
parseTransaction(serialized) ==
  LET it == serialized.items
  IN CASE serialized.prefix = 2 ->
            [tx |-> [NoTx EXCEPT
                       !.type = "eip1559",
                       !.chainId = BytesToNumber(it[1]),
                       !.nonce = BytesToNumber(it[2]),
                       !.maxPriorityFeePerGas = OptionalNumber(it[3]),
                       !.maxFeePerGas = OptionalNumber(it[4]),
                       !.gas = OptionalNumber(it[5]),
                       !.to = OptionalString(it[6]),
                       !.value = OptionalNumber(it[7]),
                       !.data = OptionalString(it[8]),
                       !.hasAccessList = it[9] # <<>>,
                       !.accessList = ParseAccessList(it[9])],
             signature |-> ParsedSignature(it, 10)]
       [] serialized.prefix = 1 ->
            [tx |-> [NoTx EXCEPT
                       !.type = "eip2930",
                       !.chainId = BytesToNumber(it[1]),
                       !.nonce = BytesToNumber(it[2]),
                       !.gasPrice = OptionalNumber(it[3]),
                       !.gas = OptionalNumber(it[4]),
                       !.to = OptionalString(it[5]),
                       !.value = OptionalNumber(it[6]),
                       !.data = OptionalString(it[7]),
                       !.hasAccessList = it[8] # <<>>,
                       !.accessList = ParseAccessList(it[8])],
             signature |-> ParsedSignature(it, 9)]
       [] OTHER ->
            LET chainIdOrV == IF Len(it) < 9 THEN 0 ELSE BytesToNumber(it[7])
                unsigned == Len(it) < 9 \/ (it[8] = <<>> /\ it[9] = <<>>)
                chainId == IF unsigned THEN chainIdOrV
                           ELSE (chainIdOrV - 35) \div 2
            IN [tx |-> [NoTx EXCEPT
                          !.type = "legacy",
                          !.nonce = BytesToNumber(it[1]),
                          !.gasPrice = OptionalNumber(it[2]),
                          !.gas = OptionalNumber(it[3]),
                          !.to = OptionalString(it[4]),
                          !.value = OptionalNumber(it[5]),
                          !.data = OptionalString(it[6]),
                          !.chainId = IF chainId > 0 THEN chainId ELSE -1],
                signature |->
                  IF unsigned THEN NoSignature
                  ELSE [present |-> TRUE,
                        yParity |-> IF chainIdOrV % 2 = 0 THEN 1 ELSE 0,
                        signer |-> it[8][1],
                        hash |-> it[8][2]]]

OTHER_ADDRESS == "0x000000000000000000000000000000000000dEaD"

\* recoverTransactionAddress: parse, serialize again without the signature,
\* and recover the signer of that payload; a signature made over another
\* payload recovers to another address
recoverTransactionAddress(serialized) ==
  LET parsed == parseTransaction(serialized)
      payload == serializeTransaction(parsed.tx, NoSignature)
  IN IF parsed.signature.present /\ parsed.signature.hash = payload
     THEN parsed.signature.signer
     ELSE OTHER_ADDRESS

\* assertTransaction*, for the fields the model draws: "" or the error
AssertTransaction(tx) ==
  IF getTransactionType(tx) = "invalid"
  THEN "InvalidSerializableTransactionError"
  ELSE IF tx.to # "" /\ ~isAddress(tx.to) THEN "InvalidAddressError"
  ELSE IF getTransactionType(tx) # "legacy" /\ tx.chainId <= 0
  THEN "InvalidChainIdError"
  ELSE IF tx.maxPriorityFeePerGas > tx.maxFeePerGas /\ tx.maxFeePerGas # -1
  THEN "TipAboveFeeCapError"
  ELSE ""

\* a variant of the step below whose check of `to` also refuses a
\* transaction without a recipient
SignTransaction_Start_ToRequired ==
  /\ cmd = "signTransaction"
  /\ pc = "st_start"
  /\ UNCHANGED <<cmd, input, local, log>>
  /\ IF input.privateKey = "" \/ ~StartsWith0x(input.privateKey)
     THEN Throw("Private key must be a hex string starting with 0x")
     ELSE IF ~isHex(input.transaction.to)
     THEN Throw("Transaction \"to\" field must be a valid 0x-prefixed hex address")
     ELSE IF input.privateKey # TEST_PRIVATE_KEY
     THEN Throw("invalid private key")
     ELSE IF AssertTransaction(input.transaction) # ""
     THEN Throw(AssertTransaction(input.transaction))
     ELSE /\ pc' = "st_await_sign"
          /\ UNCHANGED <<pending, result, out, exitCode>>

\* signTransaction: the checks, then privateKeyToAccount and
\* `await account.signTransaction(transaction)`
SignTransaction_Start ==
  /\ cmd = "signTransaction"
  /\ pc = "st_start"
  /\ UNCHANGED <<cmd, input, local, log>>
  /\ IF input.privateKey = "" \/ ~StartsWith0x(input.privateKey)
     THEN Throw("Private key must be a hex string starting with 0x")
     ELSE IF input.transaction.to # "" /\ ~isHex(input.transaction.to)
     THEN Throw("Transaction \"to\" field must be a valid 0x-prefixed hex address")
     ELSE IF input.privateKey # TEST_PRIVATE_KEY
     THEN Throw("invalid private key")
     ELSE IF AssertTransaction(input.transaction) # ""
     THEN Throw(AssertTransaction(input.transaction))
     ELSE /\ pc' = "st_await_sign"
          /\ UNCHANGED <<pending, result, out, exitCode>>

\* account.signTransaction settles: the payload is signed (the parity of
\* the signature is either) and serialized with the signature
SignTransaction_Signed ==
  /\ pc = "st_await_sign"
  /\ UNCHANGED <<cmd, input, local, log, pending, out, exitCode>>
  /\ \E yParity \in {0, 1} :
       LET payload == serializeTransaction(input.transaction, NoSignature)
           signature == [present |-> TRUE, yParity |-> yParity,
                         signer |-> TEST_FROM, hash |-> payload]
       IN result' = [kind |-> "ok", error |-> "",
                     value |-> [address |-> TEST_FROM,
                                serializedTransaction |->
                                  serializeTransaction(input.transaction, signature)]]
  /\ pc' = "done"

-----------------------------------------------------------------------------
(* The commands that sign or derive locally: sign-message, sign,           *)
(* sign-typed-data, who-am-i (index.ts and the command modules), and       *)
(* get-balance, which takes the key only to derive the address             *)

KeyRequiredMessage ==
  "Private key is required. Provide it via -k flag or CHAINAI_PRIVATE_KEY environment variable."

\* the end of a command action's try block: console.log of the
\* CHAINAI_OK line and of JSON.stringify(result)
CliReturn(line, value) ==
  /\ pc' = "done"
  /\ result' = [kind |-> "ok", error |-> "", value |-> value]
  /\ out' = Append(out, line)
  /\ exitCode' = 0
  /\ pending' = {}

\* the sign-message command and signMessage; the signature is a value of
\* the key and the message, written "0xsignature"
CliSignMessage_Run ==
  /\ cmd = "cli_sign_message"
  /\ pc = "start"
  /\ UNCHANGED <<cmd, input, local, log>>
  /\ IF input.privateKey = ""
     THEN Throw(KeyRequiredMessage)
     ELSE IF input.message = ""
     THEN Throw("Message must be a non-empty string")
     ELSE IF validateAndCreateAccount(input.privateKey) # ""
     THEN Throw(validateAndCreateAccount(input.privateKey))
     ELSE IF input.raw /\ ~isHex(input.message)
     THEN Throw("Message must be a valid hex string (0x-prefixed) when using raw mode")
     ELSE CliReturn("CHAINAI_OK: Message signed successfully",
                    [address |-> TEST_FROM, message |-> input.message,
                     signature |-> "0xsignature"])

\* the sign command and sign
CliSign_Run ==
  /\ cmd = "cli_sign"
  /\ pc = "start"
  /\ UNCHANGED <<cmd, input, local, log>>
  /\ IF input.privateKey = ""
     THEN Throw(KeyRequiredMessage)
     ELSE IF input.hash = "" \/ ~isHex(input.hash)
     THEN Throw("Hash must be a valid 0x-prefixed hex string")
     ELSE IF StrLen(input.hash) # 66
     THEN Throw("Hash must be exactly 32 bytes (64 hex characters)")
     ELSE IF validateAndCreateAccount(input.privateKey) # ""
     THEN Throw(validateAndCreateAccount(input.privateKey))
     ELSE CliReturn("CHAINAI_OK: Hash signed successfully",
                    [address |-> TEST_FROM, hash |-> input.hash,
                     signature |-> "0xsignature"])

\* the sign-typed-data command and signTypedData; --data is one of a
\* document with the four fields, a document without them, and text that
\* is not JSON
CliSignTypedData_Run ==
  /\ cmd = "cli_sign_typed_data"
  /\ pc = "start"
  /\ UNCHANGED <<cmd, input, local, log>>
  /\ IF input.privateKey = ""
     THEN Throw(KeyRequiredMessage)
     ELSE IF input.data = "not-json"
     THEN Throw("Invalid JSON provided for --data. Must be a valid JSON string with domain, types, primaryType, and message.")
     ELSE IF input.data = "{}"
     THEN Throw("Data must contain domain, types, primaryType, and message fields.")
     ELSE IF ~StartsWith0x(input.privateKey)
     THEN Throw("Private key must be a hex string starting with 0x")
     ELSE IF input.privateKey # TEST_PRIVATE_KEY
     THEN Throw("invalid private key")
     ELSE CliReturn("CHAINAI_OK: Typed data signed successfully",
                    [address |-> TEST_FROM, signature |-> "0xsignature"])

\* a variant of the command below whose result also carries the key, as
\* the result of gen-wallet does
CliWhoAmI_Run_WithKey ==
  /\ cmd = "cli_who_am_i"
  /\ pc = "start"
  /\ UNCHANGED <<cmd, input, local, log>>
  /\ IF input.privateKey = ""
     THEN Throw(KeyRequiredMessage)
     ELSE IF validateAndCreateAccount(input.privateKey) # ""
     THEN Throw(validateAndCreateAccount(input.privateKey))
     ELSE CliReturn("CHAINAI_OK: Address retrieved successfully",
                    [address |-> TEST_FROM, privateKey |-> input.privateKey])

\* the who-am-i command and whoAmI
CliWhoAmI_Run ==
  /\ cmd = "cli_who_am_i"
  /\ pc = "start"
  /\ UNCHANGED <<cmd, input, local, log>>
  /\ IF input.privateKey = ""
     THEN Throw(KeyRequiredMessage)
     ELSE IF validateAndCreateAccount(input.privateKey) # ""
     THEN Throw(validateAndCreateAccount(input.privateKey))
     ELSE CliReturn("CHAINAI_OK: Address retrieved successfully",
                    [address |-> TEST_FROM])

\* the get-balance command up to getBalance's first await: the address is
\* the -a option or whoAmI of CHAINAI_PRIVATE_KEY; then the checks of
\* getBalance, and the request for the balances
CliGetBalance_Start ==
  /\ cmd = "cli_get_balance"
  /\ pc = "start"
  /\ UNCHANGED <<cmd, input>>
  /\ LET address == IF input.address # "" THEN input.address ELSE TEST_FROM
         request == IF input.all
                    THEN "getAllBalances"
                    ELSE IF ToLowerCase(input.token) = NATIVE_TOKEN_ADDRESS
                    THEN "getBalance"
                    ELSE "getTokenBalances"
     IN IF input.address = "" /\ input.privateKey = ""
        THEN /\ Throw("Address is required. Provide it via -a flag or set CHAINAI_PRIVATE_KEY environment variable.")
             /\ UNCHANGED <<local, log>>
        ELSE IF input.address = ""
                /\ validateAndCreateAccount(input.privateKey) # ""
        THEN /\ Throw(validateAndCreateAccount(input.privateKey))
             /\ UNCHANGED <<local, log>>
        ELSE IF ~StartsWith0x(address)
        THEN /\ Throw("Address must be a valid 0x-prefixed hex string")
             /\ UNCHANGED <<local, log>>
        ELSE IF resolveNetwork(input.network) = NoChain
        THEN /\ Throw(UnsupportedNetworkMessage)
             /\ UNCHANGED <<local, log>>
        ELSE IF ~input.all /\ ~isAddress(input.token)
        THEN /\ Throw("Token must be a valid 0x-prefixed address. Use 0xeeeeeeeeeeeeeeeeeeeeeeeeeeeeeeeeeeeeeeee for native token.")
             /\ UNCHANGED <<local, log>>
        ELSE /\ local' = [local EXCEPT !.address = address]
             /\ log' = Append(log, "call:" \o request)
             /\ pc' = "gb_await"
             /\ UNCHANGED <<pending, result, out, exitCode>>

\* the balances request settled: a failure, no entry for the token, or
\* the balance with its formatted form
CliGetBalance_Return ==
  /\ pc = "gb_await"
  /\ UNCHANGED <<cmd, input, local>>
  /\ LET chain == resolveNetwork(input.network)
         native == ToLowerCase(input.token) = NATIVE_TOKEN_ADDRESS
         request == IF input.all
                    THEN "getAllBalances"
                    ELSE IF native THEN "getBalance" ELSE "getTokenBalances"
         balanceOf(b) ==
           [address |-> local.address, network |-> chain.name,
            token |-> IF native \/ input.all THEN "native" ELSE "USDT",
            balance |-> b.formatted, rawBalance |-> b.raw,
            decimals |-> IF native \/ input.all THEN 18 ELSE 6,
            contract |-> IF input.all
                         THEN NATIVE_TOKEN_ADDRESS
                         ELSE ToLowerCase(input.token)]
     IN \/ /\ log' = Append(log, "rej:" \o request)
           /\ Throw("request failed")
        \/ /\ ~native /\ ~input.all
           /\ log' = Append(log, "ret:getTokenBalances")
           /\ Throw("Token \"<token>\" not found for address <address> on <chain>. The address may not hold this token.")
        \/ \E b \in {[raw |-> "0", formatted |-> "0"],
                     [raw |-> "1500000", formatted |-> "1.5"]} :
             /\ log' = Append(log, "ret:" \o request)
             /\ CliReturn("CHAINAI_OK: Balance retrieved successfully",
                          IF input.all THEN <<balanceOf(b)>> ELSE balanceOf(b))

-----------------------------------------------------------------------------
(* The invocations: entry points and the arguments drawn for them          *)

PrivateKeys == {TEST_PRIVATE_KEY, "", "not-a-key"}

TokenInputs ==
  {NATIVE_TOKEN_ADDRESS, NATIVE_CHECKSUMMED, USDT_CONTRACT, NOT_AN_ADDRESS}

\* "1.0000004" followed by sixteen 9s
LongAmount ==
  <<"1", ".", "0", "0", "0", "0", "0", "0", "4">> \o [i \in 1 .. 16 |-> "9"]

AmountInputs ==
  {<<"1">>, <<"1", ".", "5">>, <<"0">>, <<"-", "5">>, <<"a", "b", "c">>,
   <<>>, <<"1", "e", "3">>, <<"0", "x", "1", "0">>,
   <<"I", "n", "f", "i", "n", "i", "t", "y">>,
   <<"1", "0", "0">>, <<"0", ".", "1", "2", "3", "4", "5", "6", "7">>,
   LongAmount}

NetworkInputs == {"mainnet", "bsc", "polygon"}

NoInput ==
  [privateKey |-> "", fromToken |-> "", toToken |-> "", amount |-> <<>>,
   network |-> "mainnet", yes |-> FALSE, orderHash |-> "", hash |-> "",
   serializedTransaction |-> "", to |-> "", token |-> "", broadcast |-> FALSE,
   transaction |-> NoTx, message |-> "", raw |-> FALSE, data |-> "",
   address |-> "", all |-> FALSE]

SwapInputs(flags) ==
  {[NoInput EXCEPT !.privateKey = k, !.fromToken = f, !.toToken = t,
                   !.amount = a, !.network = n, !.yes = y] :
     k \in PrivateKeys, f \in TokenInputs,
     t \in {NATIVE_TOKEN_ADDRESS, USDT_CONTRACT, NOT_AN_ADDRESS},
     a \in AmountInputs, n \in NetworkInputs, y \in flags}

SendInputs(flags) ==
  {[NoInput EXCEPT !.privateKey = k, !.to = r, !.token = t, !.amount = a,
                   !.network = n, !.broadcast = b] :
     k \in PrivateKeys, r \in {TEST_TO, NOT_AN_ADDRESS}, t \in TokenInputs,
     a \in AmountInputs, n \in NetworkInputs, b \in flags}

OrderStatusInputs ==
  {[NoInput EXCEPT !.privateKey = k, !.orderHash = h, !.network = n] :
     k \in PrivateKeys, h \in {"0xorderhash123", ""}, n \in NetworkInputs}

TxStatusInputs ==
  {[NoInput EXCEPT !.hash = h, !.network = n] :
     h \in {FAKE_TX_HASH, "", "not-a-hash", "0xabcdef"}, n \in NetworkInputs}

\* the strings resolveNetwork is called with on its own: ids, names and
\* aliases in several letter-casings, and strings that are neither
ResolveInputs ==
  {[NoInput EXCEPT !.network = n] :
     n \in {"1", "56", "mainnet", "MAINNET", "MainNet", "ethereum", "ETHEREUM",
            "Ethereum", "eth", "ETH", "Eth", "bsc", "BSC", "Bsc", "binance",
            "BINANCE", "Binance", "bnb", "BNB", "Bnb", "BNB Smart Chain",
            "bnb smart chain", "BNB SMART CHAIN", "polygon", "POLYGON", "137",
            "", "0x1", "1.0", "1e0", " 56 "}}

\* the access lists drawn
AccessLists ==
  {<<>>,
   <<[address |-> TEST_TO,
      storageKeys |-> <<"0x0000000000000000000000000000000000000000000000000000000000000001">>]>>}

\* legacy, access-list and priority-fee transactions, as the tests build
\* them: with a recipient or without (contract creation), and with fields
\* of zero; and some that are not valid
TransactionInputs ==
  LET base == {[NoTx EXCEPT !.to = t, !.value = v, !.data = d, !.nonce = n,
                            !.gas = 21000] :
                 t \in {TEST_TO, "", NOT_AN_ADDRESS, "0xabcdef"},
                 v \in {-1, 0, 1000}, d \in {"", "0x6060604052"}, n \in {0, 7}}
  IN {[b EXCEPT !.gasPrice = 20, !.chainId = c] : b \in base, c \in {-1, 1, 56}}
     \cup {[b EXCEPT !.gasPrice = 20, !.chainId = c, !.hasAccessList = TRUE,
                     !.accessList = a] :
             b \in base, c \in {1, 56}, a \in AccessLists}
     \cup {[b EXCEPT !.maxFeePerGas = 30, !.maxPriorityFeePerGas = p,
                     !.chainId = c] :
             b \in base, c \in {1, 56}, p \in {0, 1, 40}}
     \cup {[b EXCEPT !.chainId = 1] : b \in base}

SignTransactionInputs ==
  {[NoInput EXCEPT !.privateKey = k, !.transaction = t] :
     k \in PrivateKeys, t \in TransactionInputs}

BroadcastInputs ==
  {[NoInput EXCEPT !.serializedTransaction = t, !.network = n] :
     t \in {SERIALIZED_TX, "", "not-a-hex-string"}, n \in NetworkInputs}

\* the arguments of the signing commands, of who-am-i and of get-balance
LocalInputs(c) ==
  CASE c = "cli_sign_message" ->
         {[NoInput EXCEPT !.privateKey = k, !.message = m, !.raw = r] :
            k \in PrivateKeys, r \in BOOLEAN,
            m \in {"Hello, World!", "", "0xabcdef", TEST_PRIVATE_KEY}}
    [] c = "cli_sign" ->
         {[NoInput EXCEPT !.privateKey = k, !.hash = h] :
            k \in PrivateKeys,
            h \in {FAKE_TX_HASH, "", "not-a-hash", "0xabcdef",
                   TEST_PRIVATE_KEY}}
    [] c = "cli_sign_typed_data" ->
         {[NoInput EXCEPT !.privateKey = k, !.data = d] :
            k \in PrivateKeys \cup {"0xabcdef"},
            d \in {"typed-data", "{}", "not-json"}}
    [] c = "cli_who_am_i" ->
         {[NoInput EXCEPT !.privateKey = k] :
            k \in PrivateKeys \cup {"0xabcdef"}}
    [] c = "cli_get_balance" ->
         {[NoInput EXCEPT !.privateKey = k, !.address = a, !.network = n,
                          !.token = t, !.all = all] :
            k \in PrivateKeys, a \in {"", TEST_FROM, NOT_AN_ADDRESS},
            n \in NetworkInputs, t \in TokenInputs, all \in BOOLEAN}

Commands ==
  {"cli_swap", "getSwapQuote", "submitSwapOrder", "swapOrderStatus",
   "txStatus", "cli_send", "send", "broadcast", "resolveNetwork",
   "signTransaction", "cli_sign_message", "cli_sign",
   "cli_sign_typed_data", "cli_who_am_i", "cli_get_balance"}

InputsOf(c) ==
  CASE c = "cli_swap" -> SwapInputs(BOOLEAN)
    [] c \in {"getSwapQuote", "submitSwapOrder"} -> SwapInputs({FALSE})
    [] c = "swapOrderStatus" -> OrderStatusInputs
    [] c = "txStatus" -> TxStatusInputs
    [] c = "cli_send" -> SendInputs(BOOLEAN)
    [] c = "send" -> SendInputs({FALSE})
    [] c = "broadcast" -> BroadcastInputs
    [] c = "resolveNetwork" -> ResolveInputs
    [] c = "signTransaction" -> SignTransactionInputs
    [] OTHER -> LocalInputs(c)

EntryPc(c) ==
  CASE c = "getSwapQuote" -> "gq_start"
    [] c = "submitSwapOrder" -> "sso_start"
    [] c = "send" -> "send_start"
    [] c = "broadcast" -> "bc_start"
    [] c = "signTransaction" -> "st_start"
    [] OTHER -> "start"

Init ==
  /\ cmd \in Commands
  /\ input \in InputsOf(cmd)
  /\ pc = EntryPc(cmd)
  /\ local = Locals0
  /\ pending = {}
  /\ log = <<>>
  /\ result = NoResult
  /\ out = <<>>
  /\ exitCode = -1

Next ==
  \/ ResolveNetwork_Call
  \/ SignTransaction_Start
  \/ SignTransaction_Signed
  \/ CliSignMessage_Run
  \/ CliSign_Run
  \/ CliSignTypedData_Run
  \/ CliWhoAmI_Run
  \/ CliGetBalance_Start
  \/ CliGetBalance_Return
  \/ CliSwap_Start
  \/ GetSwapQuote_Start
  \/ \E side \in {"from", "to"} : FetchTokenDecimals_Settle(side)
  \/ GetSwapQuote_AfterDecimals
  \/ GetSwapQuote_Return
  \/ CliSwap_Answer
  \/ SubmitSwapOrder_Start
  \/ SubmitSwapOrder_AfterDecimals
  \/ SubmitSwapOrder_NeedsApproval
  \/ SetApproval_Prepared
  \/ SetApproval_Sent
  \/ SetApproval_Receipt
  \/ SubmitSwapOrder_Quote
  \/ SubmitOrder_Created
  \/ SubmitOrder_Submitted
  \/ SubmitOrder_NativeSubmitted
  \/ SubmitOrder_LockPrepared
  \/ SubmitOrder_LockSent
  \/ SubmitOrder_LockReceipt
  \/ SwapOrderStatus_Start
  \/ SwapOrderStatus_Return
  \/ TxStatus_Start
  \/ TxStatus_Return
  \/ CliSend_Start
  \/ Send_Start
  \/ Send_TxCount
  \/ Send_Fees
  \/ Send_Decimals
  \/ Send_Gas
  \/ CliSend_Answer
  \/ Broadcast_Start
  \/ Broadcast_Sent

Spec == Init /\ [][Next]_vars

-----------------------------------------------------------------------------
(* Properties of the swap orchestration                                    *)

\* a run that reaches submitSwapOrder: the function called on its own, or
\* through the swap command
IsSwapRun == cmd \in {"cli_swap", "submitSwapOrder"}

\* every occurrence of b has an occurrence of a before it
Precedes(a, b) ==
  \A j \in DOMAIN log : log[j] = b => \E i \in 1 .. j - 1 : log[i] = a

\* some occurrence of b comes after some occurrence of a
Follows(a, b) ==
  \E i, j \in DOMAIN log : i < j /\ log[i] = a /\ log[j] = b

\* the requests a swap run awaits one after the other
SwapRequests ==
  {"prompt", "allowance", "prepare:approval", "sendRaw:approval",
   "receipt:approval", "quote", "createOrder", "submitOrder",
   "submitNativeOrder", "prepare:lock", "sendRaw:lock", "receipt:lock"}

\* a request is settled before anything else is requested
OneAtATime ==
  \A i \in DOMAIN log : \A r \in SwapRequests :
    log[i] = "call:" \o r =>
      \/ i = Len(log)
      \/ log[i + 1] \in {"ret:" \o r, "rej:" \o r}

\* the source token is the native sentinel in some letter-casing
SourceIsSentinel == ToLowerCase(input.fromToken) = NATIVE_TOKEN_ADDRESS

\* C1: in every run of submitSwapOrder, when the allowance check has
\* reported that approval is required, exactly one approval transaction has
\* been broadcast, and its receipt has arrived, by the time the order is
\* submitted (a run that fails before the broadcast sends none, and no run
\* sends two); when the check has reported a sufficient allowance, or was
\* skipped for the sentinel, no approval transaction is broadcast and the
\* approvalTxHash of the result is null.
C1_OneApprovalBeforeSubmit ==
  IsSwapRun =>
    /\ Count("call:sendRaw:approval") <= 1
    /\ ~local.needsApproval =>
         /\ Count("call:sendRaw:approval") = 0
         /\ local.approvalTxHash = "null"
    /\ (local.needsApproval /\ Logged("call:createOrder")) =>
         /\ Count("call:sendRaw:approval") = 1
         /\ Precedes("call:sendRaw:approval", "ret:receipt:approval")
         /\ Precedes("ret:receipt:approval", "call:createOrder")
    /\ (result.kind = "ok" /\ ~local.needsApproval) =>
         result.value.approvalTxHash = "null"

\* a run that needed approval, broadcast it once and returned an order
C1_Witness ==
  /\ IsSwapRun
  /\ local.needsApproval
  /\ Count("call:sendRaw:approval") = 1
  /\ result.kind = "ok"
  /\ result.value.approvalTxHash = APPROVAL_TX_HASH

\* C2: when the source is the native sentinel (as submitOrder compares it),
\* a returned order hash is the one the order service issued, and it is
\* returned only after the native-order transaction was broadcast and its
\* receipt came back with status success; when the receipt is reverted the
\* run ends in the error "Native Transaction Failed" with no order hash,
\* although the service had issued one.
C2_NativeHashOnlyAfterSuccessfulLock ==
  (IsSwapRun /\ submitOrderIsNative(input.fromToken)) =>
    /\ result.kind = "ok" =>
         /\ Logged("ret:sendRaw:lock")
         /\ Precedes("call:sendRaw:lock", "ret:receipt:lock")
         /\ local.lockReceipt = "success"
         /\ local.serviceOrderHash = ORDER_HASH
         /\ result.value.orderHash = local.serviceOrderHash
    /\ local.lockReceipt = "reverted" =>
         /\ local.serviceOrderHash = ORDER_HASH
         /\ result.kind = "err"
         /\ result.error = "Native Transaction Failed"
         /\ result.value = <<>>

\* the service issued an order hash, the native-order transaction reverted,
\* and the run failed
C2_Witness ==
  /\ IsSwapRun
  /\ submitOrderIsNative(input.fromToken)
  /\ local.serviceOrderHash = ORDER_HASH
  /\ local.lockReceipt = "reverted"
  /\ result.kind = "err"

\* C3: if the approval transaction is mined with a reverted receipt the
\* swap attempt fails: no quote is requested after that receipt, no order
\* is submitted, and submitSwapOrder returns no order hash.
C3_RevertedApprovalIsFatal ==
  (IsSwapRun /\ local.approvalReceipt = "reverted") =>
    /\ ~Follows("ret:receipt:approval", "call:quote")
    /\ ~Logged("call:createOrder")
    /\ result.kind # "ok"

\* the approval reverted and submitSwapOrder returned an order hash
C3_RevertedApprovalYetOrderSubmitted ==
  /\ IsSwapRun
  /\ local.approvalReceipt = "reverted"
  /\ Logged("ret:submitOrder")
  /\ result.kind = "ok"
  /\ result.value.orderHash = ORDER_HASH
  /\ result.value.approvalTxHash = APPROVAL_TX_HASH

\* C4: an approval transaction is broadcast only if the source token is
\* not the native sentinel and the allowance read is strictly less than the
\* raw amount; for a native source in any letter-casing no allowance is
\* read, no approval is broadcast and approvalTxHash is null; for a token
\* whose allowance covers the amount no approval is broadcast and
\* approvalTxHash is null.
C4_ApprovalOnlyForTokenBelowAllowance ==
  IsSwapRun =>
    /\ Logged("call:sendRaw:approval") =>
         /\ ~SourceIsSentinel
         /\ BigLess(local.allowance, local.rawAmount)
    /\ SourceIsSentinel =>
         /\ ~Logged("call:allowance")
         /\ ~Logged("call:sendRaw:approval")
         /\ local.approvalTxHash = "null"
    /\ (Logged("ret:allowance") /\ ~BigLess(local.allowance, local.rawAmount)) =>
         /\ ~Logged("call:sendRaw:approval")
         /\ local.approvalTxHash = "null"

\* the sentinel in checksum casing: its allowance was read, an approval was
\* broadcast for it, and the result carries the approval's hash
C4_ApprovalForChecksummedSentinel ==
  /\ IsSwapRun
  /\ input.fromToken = NATIVE_CHECKSUMMED
  /\ Logged("ret:allowance")
  /\ Logged("call:sendRaw:approval")
  /\ result.kind = "ok"
  /\ result.value.approvalTxHash = APPROVAL_TX_HASH

C6_BroadcastsAtMostOnce ==
  /\ Count("call:sendRaw:approval") <= 1
  /\ Count("call:sendRaw:lock") <= 1
  /\ Count("call:sendRaw:transfer") <= 1

\* a broadcast the node rejected: the invocation has ended, having sent it
\* once
C6_Witness ==
  /\ pc = "done"
  /\ result.kind = "err"
  /\ \/ Logged("rej:sendRaw:transfer") /\ Count("call:sendRaw:transfer") = 1
     \/ Logged("rej:sendRaw:lock") /\ Count("call:sendRaw:lock") = 1

-----------------------------------------------------------------------------
(* Properties of the order-status and transaction-status queries           *)

\* the service has answered the order-status request with local.response
OrderStatusAnswered == cmd = "swapOrderStatus" /\ Logged("ret:orderStatus")

ReportedStatuses == {"pending", "filled", "expired", "cancelled"}

\* C7: getOrderStatus reports the service status "fulfilled" as "filled",
\* and decides the final amount as it does for "filled": the same outcome
\* as for the same response labelled "filled", the first fill's amount
\* included.
C7_FulfilledIsFilled ==
  (OrderStatusAnswered /\ local.response.status = "fulfilled") =>
    /\ getOrderStatus(local.response).status = "filled"
    /\ getOrderStatus(local.response)
         = getOrderStatus([local.response EXCEPT !.status = "filled"])
    /\ local.response.fills # <<>> =>
         /\ getOrderStatus(local.response).finalToAmount
              = BigInt(FALSE, local.response.fills[1].filledAuctionTakerAmount)
         /\ result.kind = "ok"
         /\ result.value.status = "filled"

\* a "fulfilled" response reported as filled with its final amount
C7_Witness ==
  /\ OrderStatusAnswered
  /\ local.response.status = "fulfilled"
  /\ result.kind = "ok"
  /\ result.value.status = "filled"
  /\ result.value.finalToAmount = <<1, 5, 0, 0, 0, 0, 0, 0, 0, 0>>

\* C8: for every status string the order service returns, the status that
\* swapOrderStatus reports is one of pending, filled, expired, cancelled.
C8_ReportedStatusInVocabulary ==
  (OrderStatusAnswered /\ result.kind = "ok") =>
    result.value.status \in ReportedStatuses

\* the service's label "partially-filled" reported as it came
C8_PartiallyFilledReported ==
  /\ OrderStatusAnswered
  /\ local.response.status = "partially-filled"
  /\ result.kind = "ok"
  /\ result.value.status = "partially-filled"

\* C9: swapOrderStatus reports a non-null finalToAmount exactly when the
\* reported status is filled, and then it is the filled-taker amount of the
\* first fill record, for every filled response (a zero amount and a
\* response without fill records included); for every other status
\* finalToAmount is null.
C9_FinalAmountIffFilled ==
  OrderStatusAnswered =>
    /\ result.kind = "ok"
    /\ IF result.value.status = "filled"
       THEN /\ result.value.finalToAmount # <<>>
            /\ local.response.fills # <<>>
            /\ result.value.finalToAmount
                 = local.response.fills[1].filledAuctionTakerAmount
       ELSE result.value.finalToAmount = <<>>

\* a filled order whose first fill has amount 0, reported with a null
\* finalToAmount
C9_FilledZeroReportedNull ==
  /\ OrderStatusAnswered
  /\ result.kind = "ok"
  /\ result.value.status = "filled"
  /\ local.response.fills # <<>>
  /\ local.response.fills[1].filledAuctionTakerAmount = <<0>>
  /\ result.value.finalToAmount = <<>>

\* C10: whenever the node has no receipt for the hash, txStatus returns
\* status pending, not an error, with blockNumber, from, to, gasUsed and
\* effectiveGasPrice null; and a returned status is success or reverted
\* exactly when the node has a receipt.
C10_NoReceiptIsPending ==
  (cmd = "txStatus" /\ local.nodeReceipt # "unknown") =>
    /\ local.nodeReceipt = "none" =>
         /\ result.kind = "ok"
         /\ result.value.status = "pending"
         /\ result.value.blockNumber = "null"
         /\ result.value.from = "null"
         /\ result.value.to = "null"
         /\ result.value.gasUsed = "null"
         /\ result.value.effectiveGasPrice = "null"
    /\ result.kind = "ok" =>
         (result.value.status \in {"success", "reverted"}
            <=> local.nodeReceipt \in {"success", "reverted"})

\* the node has no receipt and txStatus has thrown
C10_NoReceiptThrows ==
  /\ cmd = "txStatus"
  /\ local.nodeReceipt = "none"
  /\ result.kind = "err"
  /\ result.error = "TransactionReceiptNotFoundError"

-----------------------------------------------------------------------------
(* Properties of resolveNetwork                                            *)

\* resolveNetwork was called on its own and has returned or thrown
Resolved == cmd = "resolveNetwork" /\ pc = "done"

\* the id, the display name and the aliases of chain 1, in the letter-casings
\* drawn
Chain1Spellings ==
  {"1", "mainnet", "MAINNET", "MainNet", "ethereum", "ETHEREUM", "Ethereum",
   "eth", "ETH", "Eth"}

Chain56Spellings ==
  {"56", "bsc", "BSC", "Bsc", "binance", "BINANCE", "Binance", "bnb", "BNB",
   "Bnb", "BNB Smart Chain", "bnb smart chain", "BNB SMART CHAIN"}

\* C11: resolveNetwork maps "1" and every letter-casing of mainnet,
\* ethereum, eth (ethereum being the display name too) to the one chain-1
\* descriptor, maps "56" and every letter-casing of bsc, binance, bnb and of
\* the display name to the one chain-56 descriptor, no input resolves to
\* both, and "polygon" fails with the unsupported-network error.
C11_AliasesResolve ==
  /\ Cardinality({i \in DOMAIN SUPPORTED_NETWORKS : SUPPORTED_NETWORKS[i].id = 1}) = 1
  /\ Cardinality({i \in DOMAIN SUPPORTED_NETWORKS : SUPPORTED_NETWORKS[i].id = 56}) = 1
  /\ Chain1Spellings \cap Chain56Spellings = {}
  /\ Resolved =>
       /\ input.network \in Chain1Spellings =>
            result.kind = "ok" /\ result.value = mainnet /\ result.value.id = 1
       /\ input.network \in Chain56Spellings =>
            result.kind = "ok" /\ result.value = bsc /\ result.value.id = 56
       /\ input.network \in {"polygon", "POLYGON"} =>
            result.kind = "err" /\ result.error = UnsupportedNetworkMessage

\* an upper-case alias resolved to chain 56
C11_Witness ==
  /\ Resolved
  /\ input.network = "BINANCE"
  /\ result.kind = "ok"
  /\ result.value.id = 56

\* C12: resolveNetwork accepts only the decimal chain-id string of a
\* registered chain or a registered name or alias; every other string (the
\* empty string, "0x1", "1.0", "1e0", " 56 ") fails with the
\* unsupported-network error that lists all supported chains.
C12_OnlyDecimalIdOrAlias ==
  (Resolved /\ input.network \notin Chain1Spellings \cup Chain56Spellings) =>
    /\ result.kind = "err"
    /\ result.error = UnsupportedNetworkMessage

\* the hexadecimal string "0x1" resolved to chain 1
C12_HexIdResolves ==
  /\ Resolved
  /\ input.network = "0x1"
  /\ result.kind = "ok"
  /\ result.value = mainnet

-----------------------------------------------------------------------------
(* Properties of send                                                      *)

\* a run of send: the function called on its own, or through the send command
IsSendRun == cmd \in {"send", "cli_send"}

\* the private key, the recipient and the token pass send's checks
SendInputsValid ==
  /\ validateAndCreateAccount(input.privateKey) = ""
  /\ isAddress(input.to)
  /\ isAddress(input.token)

\* the string is a positive number in plain decimal notation: digits with at
\* most one dot, one of them not 0
PositiveDecimal(v) ==
  /\ v # <<>>
  /\ \A i \in 1 .. Len(v) : v[i] \in DigitChars \cup {"."}
  /\ Cardinality({i \in 1 .. Len(v) : v[i] = "."}) <= 1
  /\ \E i \in 1 .. Len(v) : v[i] \in DigitChars \ {"0"}

\* no request of the run has been rejected by the node
NoRequestRejected ==
  \A i \in DOMAIN log :
    log[i] \notin {"rej:txCount", "rej:fees", "rej:decimals:token",
                   "rej:estimateGas", "rej:sendRaw:transfer"}

TxRequestBuilt == IsSendRun /\ Logged("ret:estimateGas")

\* C14: send builds one of two transaction shapes, chosen by whether the
\* token is the native sentinel: native gives to = the recipient, value =
\* the amount scaled by the native decimals, and no call data; a token gives
\* to = the token contract, call data = transfer(recipient, the amount
\* scaled by the token's decimals), and no value.  In both, nonce is the
\* transaction count the node answered, chainId is the id of the resolved
\* chain, and the fee fields are the fee estimate the node answered.
C14_TwoTransactionShapes ==
  TxRequestBuilt =>
    /\ IF ToLowerCase(input.token) = NATIVE_TOKEN_ADDRESS
       THEN /\ local.txRequest.to = input.to
            /\ local.txRequest.value = parseUnits(input.amount, NATIVE_DECIMALS).val
            /\ local.txRequest.data = <<>>
            /\ ~Logged("call:decimals:token")
       ELSE /\ local.txRequest.to = input.token
            /\ local.txRequest.data
                 = <<"transfer", input.to,
                     parseUnits(input.amount, local.fromTokenDecimals).val>>
            /\ local.txRequest.value = NoBig
            /\ Logged("ret:decimals:token")
    /\ local.nonce \in Nonces
    /\ local.txRequest.nonce = local.nonce
    /\ local.txRequest.chainId = resolveNetwork(input.network).id
    /\ local.feeData \in FeeEstimates
    /\ local.txRequest.maxFeePerGas = local.feeData.maxFeePerGas
    /\ local.txRequest.maxPriorityFeePerGas = local.feeData.maxPriorityFeePerGas

\* a token transfer on chain 56 was built and signed
C14_Witness ==
  /\ TxRequestBuilt
  /\ input.token = USDT_CONTRACT
  /\ input.network = "bsc"
  /\ local.txRequest.to = USDT_CONTRACT
  /\ local.txRequest.chainId = 56
  /\ local.txRequest.nonce = 5
  /\ result.kind = "ok"

\* humanAmount * 10^decimals, rounded half away from zero at the first digit
\* dropped, computed on the decimal digits of a decimal number string
ExactScaled(amount, decimals) ==
  LET negative == amount # <<>> /\ amount[1] = "-"
      body == IF negative THEN Tail(amount) ELSE amount
      dot == IndexOfDot(body)
      intDigits == ToDigits(IF dot = 0 THEN body ELSE SubSeq(body, 1, dot - 1))
      fracDigits == IF dot = 0 THEN <<>>
                    ELSE ToDigits(SubSeq(body, dot + 1, Len(body)))
      padded == fracDigits \o Zeros(decimals + 1)
      kept == intDigits \o SubSeq(padded, 1, decimals)
      up == padded[decimals + 1] >= 5
  IN BigInt(negative, IF up THEN IncMag(kept) ELSE kept)

\* the decimals the amount of this run is scaled by
ScaledBy ==
  IF IsSendRun /\ ToLowerCase(input.token) = NATIVE_TOKEN_ADDRESS
  THEN NATIVE_DECIMALS
  ELSE local.fromTokenDecimals

\* the run has scaled its amount to base units
AmountScaled == local.rawAmount # NoBig

\* C15: for every accepted human amount and decimals, the base-unit amount
\* is humanAmount * 10^decimals exactly, rounded when the amount has more
\* fractional digits than decimals.
C15_BaseUnitsExact ==
  AmountScaled => local.rawAmount = ExactScaled(input.amount, ScaledBy)

\* "1.5" at 18 decimals and "100" at 6 decimals are scaled exactly, and an
\* amount of seven fractional digits is rounded at 6 decimals
C15_ExactForShortAmounts ==
  (AmountScaled /\ input.amount # LongAmount) =>
     local.rawAmount = ExactScaled(input.amount, ScaledBy)

\* a send scaled "1.0000004999999999999999" for a token of 6 decimals to
\* 1000001 base units
C15_LongFractionRoundedUp ==
  /\ IsSendRun
  /\ input.amount = LongAmount
  /\ ScaledBy = 6
  /\ local.rawAmount = [neg |-> FALSE, mag |-> <<1, 0, 0, 0, 0, 0, 1>>]
  /\ ExactScaled(input.amount, 6) = [neg |-> FALSE, mag |-> <<1, 0, 0, 0, 0, 0, 0>>]
  /\ result.kind = "ok"

\* the requests that read from the node or the quote service: transaction
\* count, fee estimate, gas estimate, decimals read, quote request
ReadOnlyRequests ==
  {"txCount", "fees", "estimateGas", "decimals:token", "decimals:from",
   "decimals:to", "quote"}

ReadOnlyEvents ==
  {k \o r : k \in {"call:", "ret:", "rej:"}, r \in ReadOnlyRequests}

\* C16: send and getSwapQuote never mutate chain state: every request they
\* make is a read (transaction count, fee estimate, gas estimate, decimals
\* read, quote request); they never submit a raw transaction, an approval or
\* an order.
C16_SendAndQuoteOnlyRead ==
  cmd \in {"send", "getSwapQuote"} =>
    \A i \in DOMAIN log : log[i] \in ReadOnlyEvents

\* send returned a signed token transfer after four requests to the node
C16_Witness ==
  /\ cmd = "send"
  /\ pc = "done"
  /\ result.kind = "ok"
  /\ Logged("ret:txCount")
  /\ Logged("ret:fees")
  /\ Logged("ret:decimals:token")
  /\ Logged("ret:estimateGas")

\* a command of the CLI ended with an error
CliFailed == IsCli /\ pc = "done" /\ result.kind = "err"

\* the error was raised by the validation of the arguments, before any
\* request was made
MalformedInput == log = <<>>

\* C17: the error kind reported reflects the cause and is not changed on the
\* way up: malformed input is reported as INVALID_INPUT, and a rejection by
\* the node or the service as EXECUTION_FAILED.
C17_ErrorKindReflectsCause ==
  CliFailed =>
    out[Len(out)] = IF MalformedInput
                    THEN "CHAINAI_ERR: INVALID_INPUT"
                    ELSE "CHAINAI_ERR: EXECUTION_FAILED"

\* the send command reported the amount "abc" as EXECUTION_FAILED
C17_InvalidAmountReportedAsExecutionFailed ==
  /\ cmd = "cli_send"
  /\ CliFailed
  /\ input.amount = <<"a", "b", "c">>
  /\ result.error = "Amount must be a positive number"
  /\ log = <<>>
  /\ out = <<"CHAINAI_ERR: EXECUTION_FAILED">>
  /\ exitCode = 1

\* C18: the CLI never prompts for input: every command proceeds from its
\* arguments, flags and environment alone, without waiting on stdin.
C18_NeverPrompts ==
  IsCli => (~Logged("call:prompt") /\ pc \notin {"await_prompt", "send_await_prompt"})

\* the send command, run without -b, has printed the signed transaction and
\* waits for a line on stdin
C18_SendWaitsOnStdin ==
  /\ cmd = "cli_send"
  /\ ~input.broadcast
  /\ pc = "send_await_prompt"
  /\ log[Len(log)] = "call:prompt"
  /\ out = <<"CHAINAI_OK: Transaction created successfully">>
  /\ exitCode = -1

\* the requests of the swap command that change state: the approval
\* transaction, the lock transaction of a native order, and the order
SwapSubmissions ==
  {"call:sendRaw:approval", "call:sendRaw:lock", "call:submitOrder",
   "call:submitNativeOrder"}

\* the caller confirmed: the flag was given, or the line read from stdin is
\* y or yes
CallerConfirmed(flag) ==
  flag \/ ToLowerCase(local.answer) \in {"y", "yes"}

\* C19: in the CLI a state-changing submission happens only after its
\* preparatory step succeeded and the caller confirmed.  The swap command
\* submits the order (and the approval) only after the quote was retrieved
\* and -y was given or the answer was y or yes; the send command broadcasts
\* only after signing succeeded and -b was given or the answer was y or yes,
\* and it broadcasts the serialized transaction just produced, on the same
\* network.
C19_SubmissionOnlyAfterConfirmation ==
  /\ cmd = "cli_swap" =>
       \A e \in SwapSubmissions :
         Logged(e) =>
           /\ Precedes("ret:quote", e)
           /\ CallerConfirmed(input.yes)
           /\ ~input.yes => Precedes("ret:prompt", e)
  /\ (cmd = "cli_send" /\ Logged("call:sendRaw:transfer")) =>
       /\ Precedes("ret:estimateGas", "call:sendRaw:transfer")
       /\ local.signedTx = SerializeSigned(local.txRequest)
       /\ CallerConfirmed(input.broadcast)
       /\ ~input.broadcast => Precedes("ret:prompt", "call:sendRaw:transfer")
       /\ local.sentTx = local.signedTx
       /\ local.sentNetwork = input.network
       /\ resolveNetwork(local.sentNetwork).id = local.txRequest.chainId

\* the send command broadcast the token transfer it had signed after the
\* answer YES
C19_Witness ==
  /\ cmd = "cli_send"
  /\ ~input.broadcast
  /\ local.answer = "YES"
  /\ local.sentTx = SERIALIZED_TOKEN_TX
  /\ Logged("ret:sendRaw:transfer")
  /\ exitCode = 0

\* the swap command submitted its order after the answer y
C19_SwapWitness ==
  /\ cmd = "cli_swap"
  /\ ~input.yes
  /\ local.answer = "y"
  /\ Logged("ret:submitOrder")

\* a field left out reads as zero
OrZero(n) == IF n < 0 THEN 0 ELSE n

\* the fields of a transaction in one form: the type its fields imply, the
\* address without letter-casing, a number left out as 0, data and access
\* list left out as empty
Fields(tx) ==
  [type |-> getTransactionType(tx),
   to |-> ToLowerCase(tx.to),
   value |-> OrZero(tx.value),
   data |-> IF tx.data = "0x" THEN "" ELSE tx.data,
   gas |-> OrZero(tx.gas),
   nonce |-> OrZero(tx.nonce),
   chainId |-> tx.chainId,
   gasPrice |-> OrZero(tx.gasPrice),
   maxFeePerGas |-> OrZero(tx.maxFeePerGas),
   maxPriorityFeePerGas |-> OrZero(tx.maxPriorityFeePerGas),
   accessList |-> AccessListItem(tx)]

\* a legacy, access-list or priority-fee transaction, with a recipient that
\* is an address or with none
ValidTransaction(tx) ==
  /\ tx.to \in {"", TEST_TO}
  /\ \/ tx.gasPrice # -1 /\ ~tx.hasAccessList
     \/ tx.gasPrice # -1 /\ tx.hasAccessList /\ tx.chainId > 0
     \/ /\ tx.maxFeePerGas # -1
        /\ tx.maxPriorityFeePerGas <= tx.maxFeePerGas
        /\ tx.chainId > 0

IsSignRun == cmd = "signTransaction"

\* C20: for every valid legacy, access-list and priority-fee transaction,
\* contract creation without a recipient included, signTransaction returns
\* a serialized transaction; parsing it recovers the fields of the
\* transaction that was given (an address read without its letter-casing,
\* a field left out read as zero or empty), and the signer recovered from
\* it is the address derived from the private key, which is the address
\* signTransaction returns.
C20_SignedRoundTrip ==
  /\ (IsSignRun /\ result.kind = "ok") =>
       /\ Fields(parseTransaction(result.value.serializedTransaction).tx)
            = Fields(input.transaction)
       /\ parseTransaction(result.value.serializedTransaction).signature.present
       /\ recoverTransactionAddress(result.value.serializedTransaction) = TEST_FROM
       /\ result.value.address = TEST_FROM
       /\ input.privateKey = TEST_PRIVATE_KEY
  /\ (IsSignRun /\ pc = "done" /\ input.privateKey = TEST_PRIVATE_KEY
        /\ ValidTransaction(input.transaction)) =>
       result.kind = "ok"

\* a legacy contract creation on chain 56 was signed with an odd parity:
\* its v is 148, and parsing gives chain 56 back
C20_Witness ==
  /\ IsSignRun
  /\ result.kind = "ok"
  /\ input.transaction.to = ""
  /\ input.transaction.data = "0x6060604052"
  /\ input.transaction.chainId = 56
  /\ result.value.serializedTransaction.prefix = 192
  /\ result.value.serializedTransaction.items[7] = <<148>>
  /\ parseTransaction(result.value.serializedTransaction).tx.chainId = 56

\* the requests a swap makes after its decimals lookups
AfterLookups ==
  {"call:allowance", "call:prepare:approval", "call:sendRaw:approval",
   "call:quote", "call:createOrder", "call:submitOrder",
   "call:prepare:lock", "call:sendRaw:lock", "call:submitNativeOrder"}

DecimalsCalls == {"call:decimals:from", "call:decimals:to"}

DecimalsSettled ==
  {"ret:decimals:from", "ret:decimals:to", "rej:decimals:from",
   "rej:decimals:to"}

\* the number of the first j entries of the log that are in the set
CountUpTo(j, events) == Cardinality({i \in 1 .. j : log[i] \in events})

\* the decimals of a side as the lookup gives them: 18 for the native
\* token, else what the node answered for that token
LookedUp(side) ==
  IF fetchTokenDecimalsIsNative(TokenOf(side)) THEN 18 ELSE local.answered[side]

\* C21: in getSwapQuote and submitSwapOrder the two decimals lookups are
\* issued together and both have completed before the amount is scaled or
\* any later request is made; the decimals used are those answered for each
\* token whichever lookup completed first; and when a lookup fails the
\* operation fails at once, with no allowance read, approval, quote or
\* order request after it.
C21_DecimalsJoinedBeforeUse ==
  cmd \in {"getSwapQuote", "submitSwapOrder", "cli_swap"} =>
    /\ \A i \in DOMAIN log :
         (log[i] = "call:decimals:from"
            /\ ~fetchTokenDecimalsIsNative(input.toToken)) =>
           (i < Len(log) /\ log[i + 1] = "call:decimals:to")
    /\ \A j \in DOMAIN log :
         log[j] \in AfterLookups =>
           /\ CountUpTo(j, DecimalsCalls) = CountUpTo(j, DecimalsSettled)
           /\ CountUpTo(j, {"rej:decimals:from", "rej:decimals:to"}) = 0
    /\ local.rawAmount # NoBig =>
         /\ pending = {}
         /\ local.fromTokenDecimals = LookedUp("from")
         /\ local.toTokenDecimals = LookedUp("to")
         /\ local.rawAmount = parseUnits(input.amount, LookedUp("from")).val
    /\ \A i \in DOMAIN log :
         log[i] \in {"rej:decimals:from", "rej:decimals:to"} =>
           /\ i = Len(log)
           /\ pc = "done"
           /\ result.kind = "err"

\* the destination's lookup completed before the source's, the answers
\* differ, and the quote was asked for the amount scaled by the source's
C21_Witness ==
  /\ cmd = "getSwapQuote"
  /\ Before("ret:decimals:to", "ret:decimals:from")
  /\ Logged("ret:decimals:to")
  /\ local.answered = [from |-> 6, to |-> 18]
  /\ Logged("call:quote")
  /\ local.rawAmount = parseUnits(input.amount, 6).val

\* the decimal digits of 2^256 - 1
MaxUint256Digits ==
  <<1, 1, 5, 7, 9, 2, 0, 8, 9, 2, 3, 7, 3, 1, 6, 1, 9, 5, 4, 2, 3, 5, 7,
    0, 9, 8, 5, 0, 0, 8, 6, 8, 7, 9, 0, 7, 8, 5, 3, 2, 6, 9, 9, 8, 4, 6,
    6, 5, 6, 4, 0, 5, 6, 4, 0, 3, 9, 4, 5, 7, 5, 8, 4, 0, 0, 7, 9, 1, 3,
    1, 2, 9, 6, 3, 9, 9, 3, 5>>

\* C22: every approval transaction the orchestrator builds targets the
\* source token and encodes approve(spender, amount) with the protocol's
\* approval address as spender and 2^256 - 1 as amount, whatever the swap
\* amount is.
C22_ApprovalIsUnlimited ==
  (IsSwapRun /\ Logged("call:prepare:approval")) =>
    /\ local.approvalTx.to = input.fromToken
    /\ local.approvalTx.data
         = <<"approve", ONEINCH_APPROVAL_ADDRESS,
             [neg |-> FALSE, mag |-> MaxUint256Digits]>>
    /\ local.approvalTx.data[3] # local.rawAmount

\* an approval for USDT was broadcast in a swap of 100 USDT
C22_Witness ==
  /\ cmd = "submitSwapOrder"
  /\ input.fromToken = USDT_CONTRACT
  /\ input.amount = <<"1", "0", "0">>
  /\ Logged("ret:sendRaw:approval")
  /\ local.approvalTx.to = USDT_CONTRACT
  /\ Len(local.approvalTx.data[3].mag) = 78

-----------------------------------------------------------------------------
(* C23: the private key is never written out                               *)

IsKeyRun ==
  cmd \in {"cli_sign_message", "cli_sign", "cli_sign_typed_data",
           "cli_who_am_i", "cli_get_balance", "signTransaction", "cli_send",
           "send", "cli_swap", "getSwapQuote", "submitSwapOrder"}

\* the strings of the result object that the command prints or returns
ResultStrings ==
  LET v == result.value
  IN CASE result.kind # "ok" -> {}
       [] cmd \in {"cli_sign_message", "cli_sign", "cli_sign_typed_data",
                   "cli_who_am_i"} -> {v[f] : f \in DOMAIN v}
       [] cmd = "cli_get_balance" ->
            LET r == IF input.all THEN v[1] ELSE v
            IN {r.address, r.network, r.token, r.balance, r.rawBalance,
                r.contract}
       [] cmd = "signTransaction" -> {v.address}
       [] cmd \in {"cli_send", "send"} ->
            IF "transactionHash" \in DOMAIN v
            THEN {v.transactionHash, v.network}
            ELSE {v.to, v.token, v.network, v.serializedTransaction}
       [] OTHER ->
            {v.fromToken, v.toToken, v.estimatedReturn}
              \cup (IF "orderHash" \in DOMAIN v
                    THEN {v.orderHash, v.approvalTxHash}
                    ELSE {})

\* everything a run has written: the CHAINAI lines, the message that
\* follows CHAINAI_ERR, and the strings of the result
Written == {out[i] : i \in DOMAIN out} \cup {result.error} \cup ResultStrings

\* the arguments other than the key, which the commands echo
OtherArguments ==
  {input.message, input.hash, input.data, input.address, input.to,
   input.token, input.fromToken, input.toToken, input.network,
   input.orderHash, input.serializedTransaction}

\* C23: in every run of a command that takes a private key, also a failing
\* one, no line written and no string of the result or of the error
\* message is the private key (the key not being passed a second time as
\* the message, the hash or another argument, which the commands echo)
C23_KeyNeverWritten ==
  (IsKeyRun /\ input.privateKey # "" /\ input.privateKey \notin OtherArguments)
    => input.privateKey \notin Written

\* a message was signed with the key and the result printed
C23_Witness ==
  /\ cmd = "cli_sign_message"
  /\ input.privateKey = TEST_PRIVATE_KEY
  /\ input.message = "Hello, World!"
  /\ result.kind = "ok"
  /\ out = <<"CHAINAI_OK: Message signed successfully">>

\* a command with a key failed and wrote its error line
C23_FailingWitness ==
  /\ cmd = "cli_who_am_i"
  /\ input.privateKey = "0xabcdef"
  /\ result.error = "invalid private key"
  /\ out = <<"CHAINAI_ERR: EXECUTION_FAILED">>

\* sign echoes its --hash argument: given the key as the hash, the
\* printed result holds that string in its hash field
C23_EchoedHash ==
  /\ cmd = "cli_sign"
  /\ input.hash = input.privateKey
  /\ result.kind = "ok"
  /\ input.privateKey \in Written

-----------------------------------------------------------------------------
(* C24: input checks come before any network request                       *)

\* one of the checks of the operation refuses the arguments
InputCheckFails ==
  LET badKey == validateAndCreateAccount(input.privateKey) # ""
      badNetwork == resolveNetwork(input.network) = NoChain
  IN CASE cmd \in {"send", "cli_send"} ->
            \/ badKey \/ ~isAddress(input.to) \/ ~isAddress(input.token)
            \/ AmountRejected(input.amount) \/ badNetwork
       [] cmd \in {"getSwapQuote", "cli_swap"} ->
            \/ badKey \/ ~isAddress(input.fromToken)
            \/ ~isAddress(input.toToken)
            \/ AmountRejected(input.amount) \/ badNetwork
       [] cmd = "broadcast" ->
            \/ input.serializedTransaction = ""
            \/ ~isHex(input.serializedTransaction) \/ badNetwork
       [] cmd = "txStatus" ->
            \/ input.hash = "" \/ ~isHex(input.hash)
            \/ StrLen(input.hash) # 66 \/ badNetwork
       [] cmd = "swapOrderStatus" ->
            badKey \/ input.orderHash = "" \/ badNetwork
       [] OTHER -> FALSE

\* C24: when an input check of send, broadcast, txStatus, getSwapQuote or
\* swapOrderStatus refuses the arguments, the run issues no request at all
\* and ends in a failure
C24_ChecksBeforeRequests ==
  InputCheckFails => (log = <<>> /\ (pc = "done" => result.kind = "err"))

\* send refused an amount that is not positive, the other arguments being
\* good, and nothing was requested
C24_Witness ==
  /\ cmd = "send"
  /\ validateAndCreateAccount(input.privateKey) = ""
  /\ isAddress(input.to) /\ isAddress(input.token)
  /\ AmountRejected(input.amount)
  /\ pc = "done"
  /\ result.error = "Amount must be a positive number"
  /\ log = <<>>

-----------------------------------------------------------------------------
(* C25: submitSwapOrder and the checks of getSwapQuote                      *)

\* the arguments that getSwapQuote refuses after the key check
QuoteChecksRefuse ==
  \/ ~isAddress(input.fromToken)
  \/ ~isAddress(input.toToken)
  \/ AmountRejected(input.amount)

\* C25: submitSwapOrder, called with a malformed fromToken or toToken or
\* with an amount that is not positive, reads no allowance, broadcasts no
\* approval and creates or submits no order
C25_SubmitRejectsLikeQuote ==
  (cmd = "submitSwapOrder" /\ QuoteChecksRefuse)
    => \A e \in SwapSubmissions \cup {"call:allowance", "call:createOrder"} :
         ~Logged(e)

\* submitSwapOrder was called with the amount "0" and read the allowance
C25_AllowanceReadForZeroAmount ==
  /\ cmd = "submitSwapOrder"
  /\ input.amount = <<"0">>
  /\ Logged("call:allowance")

-----------------------------------------------------------------------------
(* C26: one classification of the native sentinel                          *)

\* the requests made only for a source that is taken as a token contract:
\* its decimals lookup, its allowance read, the plain order submission
TokenPathRequests ==
  {"call:decimals:from", "call:allowance", "call:submitOrder"}

\* C26: when the source token is the native sentinel in any letter-casing,
\* the decimals lookup, the approval check and the submit path agree on
\* what it is: since the decimals lookup takes
\* every casing as native (no lookup, 18 decimals), the run holds no
\* request of the token path either
C26_SentinelClassifiedAlike ==
  (IsSwapRun /\ ToLowerCase(input.fromToken) = NATIVE_TOKEN_ADDRESS)
    => \A e \in TokenPathRequests : ~Logged(e)

\* the checksum-cased sentinel got no decimals lookup (native) but its
\* allowance was read (token)
C26_ChecksummedSentinelSplit ==
  /\ IsSwapRun
  /\ input.fromToken = NATIVE_CHECKSUMMED
  /\ pc = "sso_await_needsApproval"
  /\ local.fromTokenDecimals = 18
  /\ ~Logged("call:decimals:from")
  /\ Logged("call:allowance")

-----------------------------------------------------------------------------
(* C27: the hash of a broadcast approval reaches the caller                *)

\* the node accepted the approval transaction
ApprovalBroadcast == Logged("ret:sendRaw:approval")

\* C27: a submitSwapOrder attempt that broadcast an approval transaction
\* hands its caller an outcome that carries the hash of that transaction,
\* also when a later step failed
C27_ApprovalHashReported ==
  (IsSwapRun /\ pc = "done" /\ ApprovalBroadcast)
    => /\ "approvalTxHash" \in DOMAIN result.value
       /\ result.value.approvalTxHash = APPROVAL_TX_HASH

\* the approval was broadcast and mined, the quote request failed, and the
\* caller got an error that holds nothing but its message
C27_HashLostWhenQuoteFails ==
  /\ cmd = "submitSwapOrder"
  /\ pc = "done"
  /\ ApprovalBroadcast
  /\ local.approvalTxHash = APPROVAL_TX_HASH
  /\ Logged("rej:quote")
  /\ result = [kind |-> "err", error |-> "Failed to fetch quote from 1inch",
               value |-> <<>>]

-----------------------------------------------------------------------------
(* C28: the figures of the order are those of the quote that was shown     *)

\* the swap command printed the result of a submitted order
OrderReported ==
  /\ cmd = "cli_swap"
  /\ pc = "done"
  /\ result.kind = "ok"
  /\ "orderHash" \in DOMAIN result.value

\* C28: in the swap command, the estimated return printed with a submitted
\* order is that of the quote printed before the confirmation
C28_ReportedQuoteIsShownQuote ==
  OrderReported => result.value.estimatedReturn = local.shownQuote

\* the caller confirmed on one quote and the order was reported with the
\* figures of another
C28_ReportedFromFreshQuote ==
  /\ OrderReported
  /\ local.shownQuote = "quote_a"
  /\ result.value.estimatedReturn = "quote_b"

-----------------------------------------------------------------------------
(* C29: the two outcomes of a command-line run                             *)

ErrLine == "CHAINAI_ERR: EXECUTION_FAILED"

\* only CHAINAI_OK lines, at least one, and exit code 0
SucceededCleanly ==
  /\ exitCode = 0
  /\ out # <<>>
  /\ \A i \in DOMAIN out : out[i] # ErrLine

\* one CHAINAI_ERR line, no CHAINAI_OK line, and exit code 1
FailedCleanly ==
  /\ exitCode = 1
  /\ out = <<ErrLine>>

\* C29: a finished command-line run, two-step commands send and swap
\* included, has either written only CHAINAI_OK lines and exited with 0,
\* or written one CHAINAI_ERR line and no CHAINAI_OK line and exited with 1
C29_OneOfTwoOutcomes ==
  (IsCli /\ pc = "done") => (SucceededCleanly \/ FailedCleanly)

\* send printed its CHAINAI_OK line for the signed transaction, the
\* broadcast failed, and the run ended with a CHAINAI_ERR line and exit 1
C29_OkThenErr ==
  /\ cmd = "cli_send"
  /\ pc = "done"
  /\ out = <<"CHAINAI_OK: Transaction created successfully", ErrLine>>
  /\ exitCode = 1

-----------------------------------------------------------------------------
(* C30: one node endpoint per chain                                        *)

\* C30: each supported chain has a node endpoint of its own: a transaction
\* broadcast for one chain goes to a URL that is the endpoint of no other
\* supported chain, so the URLs of chain 1 and chain 56 differ
C30_OwnEndpointPerChain ==
  (cmd = "broadcast" /\ Logged("call:sendRaw:transfer"))
    => \A i \in DOMAIN SUPPORTED_NETWORKS :
         SUPPORTED_NETWORKS[i].id # resolveNetwork(input.network).id
           => local.nodeUrl
                # SUPPORTED_NETWORKS_NAME_MAP(SUPPORTED_NETWORKS[i].id).nodeUrl

\* a transaction for chain 56 was sent to the endpoint registered for
\* chain 1
C30_BscSentToEthEndpoint ==
  /\ cmd = "broadcast"
  /\ resolveNetwork(input.network).id = 56
  /\ Logged("call:sendRaw:transfer")
  /\ local.nodeUrl = SUPPORTED_NETWORKS_NAME_MAP(1).nodeUrl
  /\ local.nodeUrl = "https://nodes.mewapi.io/rpc/eth"

====
